---- MODULE Spec2Model ----
(***************************************************************************)
(* Universal search orchestrator of Agent-Lilith/lilith:                   *)
(* capability registry, retrieval router, MCP dispatcher, refinement loop  *)
(* and weighted fusion ranker (src/src/orchestrators/search/).             *)
(*                                                                         *)
(* Scores are integers in percent (0..100); method weights are in percent  *)
(* and class boosts in tenths, so a fused score is the rational            *)
(* num * boost / den and two fused scores are compared by cross            *)
(* multiplication.                                                         *)
(***************************************************************************)
EXTENDS Integers, Sequences, FiniteSets, TLC

VARIABLES
    registry,        \* CapabilityRegistry._capabilities: set of registered source names
    max_rounds,      \* UniversalSearchOrchestrator._max_refinement_rounds
    pc,              \* position of the search() coroutine
    query,           \* local query of search()
    intent,          \* local intent of search()
    intent_path,     \* intent_trace["decision"]: "deterministic" | "llm" | ""
    plan_step,       \* step_idx of _run_multihop
    extra_filters,   \* extra_filters of _run_multihop
    decisions,       \* decisions_for_run
    used_default,    \* routing_plan.used_default_sources
    all_results,     \* all_results
    errors,          \* response.errors
    notes,           \* response.notes
    iterations,      \* meta["iterations"]
    round,           \* number of passes of the refinement loop begun
    count,           \* <<count, count_source>>, or <<>> for None
    aggregates,      \* <<aggregates, aggregates_source>>, or <<>> for none
    ranked,          \* response.results
    max_results,     \* argument max_results of search() / fuse_and_rank()
    do_refinement,   \* argument do_refinement of search()
    is_personal,     \* is_personal_query handed to fuse_and_rank
    batches,         \* history: every batch handed to _execute_routing, in order
    failures,        \* history: sources of the backend calls that failed
    refine_log,      \* history: one entry per evaluation of _should_refine
    answered,        \* the backends: <<request, answer>> of every call made so far
    fuse_in,         \* argument list of a direct fuse_and_rank call
    _capabilities,   \* CapabilityRegistry._capabilities of a registry built on its own,
                     \* as the sequence of its values in key order
    gather_plan,     \* the batches a direct run of the fan-out is given, in step order
    arrived,         \* asyncio.gather: <<task index, answer>> in completion order
    mcp_routing,     \* MCPSearchDispatcher._connection_sources: connection key by source
    sent_args,       \* arguments of the call under way (of the outgoing unified_search
                     \* call, of score_sources_from_text, of search)
    returned         \* what the call gave its caller

vars == <<registry, max_rounds, pc, query, intent, intent_path, plan_step,
          extra_filters, decisions, used_default, all_results, errors, notes,
          iterations, round, count, aggregates, ranked, max_results, do_refinement,
          is_personal, batches, failures,
          refine_log, answered, fuse_in,
          gather_plan, _capabilities, arrived, mcp_routing, sent_args, returned>>

\* the variables the search pipeline never touches
aux == <<gather_plan, _capabilities, arrived, mcp_routing, sent_args, returned>>

----------------------------------------------------------------------------
(* Bounds of the model *)

MaxRounds == 2          \* largest max_refinement_rounds explored
MaxFuseLen == 3         \* longest input list of a direct fuse_and_rank call
MaxBatch == 3           \* most decisions of a fan-out run on its own
MaxRegistered == 4      \* most personal, and most web, sources of a large registry
MaxPolicyResults == 3   \* longest result list handed to the refinement policy
MaxPrior == 5           \* most prior decisions handed to the refinement policy
MaxTopN == 3            \* largest top_n handed to score_sources_from_text
MaxRepeat == 2          \* most decisions of a search that is run twice
MaxRegisterCalls == 3   \* most register calls made on one registry
MaxCandidates == 2      \* longest candidate source list handed to the router

----------------------------------------------------------------------------
(* Generic helpers *)

RECURSIVE SeqSum(_)
SeqSum(s) == IF s = <<>> THEN 0 ELSE Head(s) + SeqSum(Tail(s))

RECURSIVE Flatten(_)
Flatten(ss) == IF ss = <<>> THEN <<>> ELSE Head(ss) \o Flatten(Tail(ss))

Range(s) == {s[i] : i \in DOMAIN s}

InSeq(x, s) == \E i \in DOMAIN s : s[i] = x

Max2(a, b) == IF a >= b THEN a ELSE b
Min2(a, b) == IF a <= b THEN a ELSE b

\* Python slice s[:k] for any integer k (negative k counts from the end)
SliceTo(s, k) ==
    IF k >= 0 THEN SubSeq(s, 1, Min2(k, Len(s)))
    ELSE SubSeq(s, 1, Max2(0, Len(s) + k))

\* lexicographic rank of the strings used as source names and ids
StrOrder == <<"1", "2", "3", "a", "a:b", "b", "b:c", "blog", "c", "cal", "chat", "email",
              "fulltext", "graph", "kb", "news", "notes", "structured", "tasks", "vector",
              "web", "wiki", "zzz">>

StrRank(x) == CHOOSE i \in DOMAIN StrOrder : StrOrder[i] = x

\* sorted(set_of_names)
RECURSIVE SortedSeq(_)
SortedSeq(S) ==
    IF S = {} THEN <<>>
    ELSE LET m == CHOOSE x \in S : \A y \in S : StrRank(x) <= StrRank(y)
         IN <<m>> \o SortedSeq(S \ {m})

----------------------------------------------------------------------------
(* Capabilities (contracts/mcp_search_v1.py SearchCapabilities) of the      *)
(* sources a registry may hold.                                             *)

\* EntityExtractionRule
Rule(target_field, metadata_key, parser) ==
    [target_field |-> target_field, metadata_key |-> metadata_key, parser |-> parser]

AllSources == {"cal", "email", "web", "chat", "notes", "tasks", "news", "wiki", "blog"}

Caps(s) ==
    CASE s = "email" ->
           [source_class |-> "personal",
            supported_methods |-> <<"structured", "fulltext", "vector">>,
            supported_filters |-> {"from_name", "from_email", "date_after", "date_before"},
            supported_group_by_fields |-> <<"from_email">>,
            supported_modes |-> <<"search", "count", "aggregate">>,
            entity_extraction_rules |->
                <<Rule("from_name", "sender", "email_from_header"),
                  Rule("from_email", "sender", "email_from_header")>>,
            handler |-> "mcp"]
      [] s = "cal" ->
           [source_class |-> "personal",
            supported_methods |-> <<"structured", "vector">>,
            supported_filters |-> {"date_after"},
            supported_group_by_fields |-> <<>>,
            supported_modes |-> <<"search">>,
            entity_extraction_rules |-> <<Rule("from_name", "organizer", "string")>>,
            handler |-> "direct"]
      [] s = "chat" ->
           [source_class |-> "personal",
            supported_methods |-> <<"fulltext", "vector">>,
            supported_filters |-> {"from_name"},
            supported_group_by_fields |-> <<"from_name">>,
            supported_modes |-> <<"search">>,
            entity_extraction_rules |-> <<>>,
            handler |-> "mcp"]
      [] s \in {"notes", "tasks"} ->
           [source_class |-> "personal",
            supported_methods |-> <<"fulltext">>,
            supported_filters |-> {},
            supported_group_by_fields |-> <<>>,
            supported_modes |-> <<"search">>,
            entity_extraction_rules |-> <<>>,
            handler |-> "direct"]
      [] s = "kb" ->
           [source_class |-> "personal",
            supported_methods |-> <<"graph", "structured">>,
            supported_filters |-> {},
            supported_group_by_fields |-> <<>>,
            supported_modes |-> <<"search">>,
            entity_extraction_rules |-> <<>>,
            handler |-> "direct"]
      [] OTHER ->
           [source_class |-> "web",
            supported_methods |-> <<"vector">>,
            supported_filters |-> {},
            supported_group_by_fields |-> <<>>,
            supported_modes |-> <<"search">>,
            entity_extraction_rules |-> <<>>,
            handler |-> "direct"]

\* CapabilityRegistry.all_sources, in registration order
all_sources ==
    SelectSeq(<<"email", "cal", "web", "chat", "notes", "tasks", "news", "wiki", "blog", "kb">>,
              LAMBDA s : s \in registry)

personal_sources == SelectSeq(all_sources, LAMBDA s : Caps(s).source_class = "personal")

can_handle(s, m) == s \in registry /\ InSeq(m, Caps(s).supported_methods)

supports_group_by(s, f) == s \in registry /\ InSeq(f, Caps(s).supported_group_by_fields)

supports_mode(s, mode) == s \in registry /\ InSeq(mode, Caps(s).supported_modes)

sources_supporting_filter(f) ==
    SelectSeq(all_sources, LAMBDA s : f \in Caps(s).supported_filters)

----------------------------------------------------------------------------
(* Inputs.  A query text is represented by what the extractors read from   *)
(* it: the registered sources it mentions (in match order), its temporal   *)
(* token, its "from <name>" entity, its query type and whether it holds a  *)
(* cross-step reference ("that", "them", ...).                             *)

Q(text, mentions, temporal, sender, qtype, cross_ref) ==
    [text |-> text, mentions |-> mentions, temporal |-> temporal,
     sender |-> sender, qtype |-> qtype, cross_ref |-> cross_ref]

\* one alias match of the text: the source and its score in thousandths
M(source, confidence) == [source |-> source, confidence |-> confidence]

Queries ==
    { Q("", <<>>, "", "", "search", FALSE),
      Q("q", <<>>, "", "", "search", FALSE),
      Q("q", <<>>, "today", "Bob", "search", FALSE),
      Q("q", <<M("email", 900)>>, "today", "Bob", "search", FALSE),
      Q("q", <<M("email", 900)>>, "yesterday", "", "count", FALSE),
      Q("q", <<M("email", 900), M("cal", 890)>>, "", "", "aggregate", FALSE),
      Q("q", <<M("cal", 900), M("email", 890)>>, "", "", "aggregate", TRUE),
      Q("q", <<M("cal", 900), M("email", 890)>>, "", "", "search", TRUE),
      Q("q", <<M("email", 900), M("web", 200)>>, "", "", "search", FALSE) }

Step(sources, entity_from_previous) ==
    [sources |-> sources, entity_from_previous |-> entity_from_previous]

Intent(entities, temporal, source_hints, complexity, retrieval_plan, search_mode, aggregate_group_by) ==
    [entities |-> entities, temporal |-> temporal, source_hints |-> source_hints,
     complexity |-> complexity, retrieval_plan |-> retrieval_plan,
     search_mode |-> search_mode, aggregate_group_by |-> aggregate_group_by]

Sender(name) == [role |-> "sender", name |-> name, email |-> ""]

\* Intent objects the language model may answer with
LlmIntents ==
    { Intent(<<>>, "", <<>>, "simple", <<>>, "search", ""),
      Intent(<<Sender("Bob")>>, "today", <<"email", "cal">>, "simple", <<>>, "search", ""),
      Intent(<<>>, "", <<"zzz">>, "multi_hop", <<>>, "search", ""),
      Intent(<<>>, "", <<"cal", "email">>, "multi_hop",
             <<Step(<<"cal">>, FALSE), Step(<<"email">>, TRUE)>>, "aggregate", "from_email"),
      Intent(<<>>, "", <<"email">>, "multi_hop",
             <<Step(<<"email">>, FALSE), Step(<<"zzz">>, FALSE)>>, "search", ""),
      Intent(<<>>, "", <<"email">>, "multi_hop",
             <<Step(<<"email">>, FALSE), Step(<<"cal">>, TRUE), Step(<<"email">>, FALSE)>>,
             "search", ""),
      Intent(<<>>, "", <<"email", "cal">>, "simple", <<>>, "aggregate", "contact"),
      Intent(<<>>, "", <<"email">>, "simple",
             <<Step(<<"email">>, FALSE), Step(<<"email">>, FALSE)>>, "search", "") }

\* _analyze_intent fallback object when the model's text is not JSON
DefaultIntent == Intent(<<>>, "", <<>>, "simple", <<>>, "search", "")

----------------------------------------------------------------------------
(* Retrieval router (router.py) *)

MATCH_TOP_N == 3

Filter(field, operator, value) == [field |-> field, operator |-> operator, value |-> value]

MATCH_THRESHOLD == 300

\* RetrievalRouter._match_sources_from_text: the alias matches of a text
\* (already sorted by confidence), filtered by threshold and top_n; an
\* unregistered name has no alias and matches nothing
_match_sources_from_text(mentions, threshold, top_n) ==
    LET scored == SelectSeq(mentions, LAMBDA m : m.source \in registry /\ m.confidence > 0)
        kept == IF threshold > 0
                THEN SelectSeq(scored, LAMBDA m : m.confidence >= threshold)
                ELSE scored
    IN IF top_n > 0 THEN SliceTo(kept, top_n) ELSE kept

SourcesOf(matches) == [i \in DOMAIN matches |-> matches[i].source]

\* the text " ".join(hints) mentions every hint that is a source name
HintMentions(hints) == [i \in DOMAIN hints |-> M(hints[i], 900)]

RECURSIVE EntityFilters(_)
EntityFilters(entities) ==
    IF entities = <<>> THEN <<>>
    ELSE LET e == Head(entities)
             own == IF e.role = "sender"
                    THEN (IF e.name # "" THEN <<Filter("from_name", "contains", e.name)>> ELSE <<>>)
                         \o (IF e.email # "" THEN <<Filter("from_email", "contains", e.email)>> ELSE <<>>)
                    ELSE IF e.role = "recipient" /\ e.name # ""
                    THEN <<Filter("to_email", "contains", e.name)>>
                    ELSE <<>>
         IN own \o EntityFilters(Tail(entities))

TemporalFilters(temporal) ==
    CASE temporal = "today" -> <<Filter("date_after", "gte", "day0")>>
      [] temporal = "yesterday" ->
           <<Filter("date_after", "gte", "day-1"), Filter("date_before", "lte", "day-1")>>
      [] temporal \in {"this week", "last week", "this month", "last month",
                       "recent", "recently", "latest", "most recent"} ->
           <<Filter("date_after", "gte", "day-n")>>
      [] OTHER -> <<>>

_extract_filters(it) == EntityFilters(it.entities) \o TemporalFilters(it.temporal)

\* <<mode, group_by>>; group_by "" is None
_extract_mode_and_group_by(it, sources) ==
    LET mode == IF it.search_mode \in {"search", "count", "aggregate"}
                THEN it.search_mode ELSE "search"
        requested == it.aggregate_group_by
        declaring == SelectSeq(sources,
                       LAMBDA s : s \in registry /\ Caps(s).supported_group_by_fields # <<>>)
    IN IF mode # "aggregate" THEN <<mode, "">>
       ELSE IF requested # "" /\ \E i \in DOMAIN sources : supports_group_by(sources[i], requested)
       THEN <<"aggregate", requested>>
       ELSE IF declaring # <<>>
       THEN <<"aggregate", Caps(declaring[1]).supported_group_by_fields[1]>>
       ELSE <<"search", "">>

_select_methods(source, q, filters, it) ==
    IF source \notin registry THEN <<"vector">>
    ELSE LET supported == Caps(source).supported_methods
             has_filters == filters # <<>>
             has_query == q.text # ""
             has_temporal == it.temporal # ""
             methods ==
                 (IF (has_filters \/ has_temporal) /\ InSeq("structured", supported)
                  THEN <<"structured">> ELSE <<>>)
                 \o (IF has_query /\ InSeq("fulltext", supported) THEN <<"fulltext">> ELSE <<>>)
                 \o (IF has_query /\ InSeq("vector", supported) THEN <<"vector">> ELSE <<>>)
         IN IF methods # <<>> THEN methods
            ELSE IF has_query /\ InSeq("vector", supported) THEN <<"vector">>
            ELSE IF InSeq("structured", supported) THEN <<"structured">>
            ELSE IF supported # <<>> THEN <<supported[1]>>
            ELSE <<>>

_filter_for_source_all(source, filters) == filters

_filter_for_source(source, filters) ==
    IF source \notin registry THEN <<>>
    ELSE SelectSeq(filters, LAMBDA f : f.field \in Caps(source).supported_filters)

src_group_by_unchecked(source, group_by) == group_by

\* src_group_by of route / decisions_for_sources
src_group_by(source, group_by) ==
    IF group_by # "" /\ supports_group_by(source, group_by) THEN group_by ELSE ""

RoutingDecision(source, methods, q, filters, mode, group_by) ==
    [source |-> source, methods |-> methods, query |-> q.text, filters |-> filters,
     mode |-> mode, group_by |-> group_by]

\* the decision list both route and decisions_for_sources build for a source list
BuildDecisions(sources, q, it, filters) ==
    LET mg == _extract_mode_and_group_by(it, sources)
        known == SelectSeq(sources, LAMBDA s : s \in registry)
    IN [i \in DOMAIN known |->
          RoutingDecision(known[i], _select_methods(known[i], q, filters, it), q,
                          _filter_for_source(known[i], filters), mg[1],
                          src_group_by(known[i], mg[2]))]

\* <<sources, used_default_sources>>
_select_sources(it, q) ==
    LET hinted == SourcesOf(_match_sources_from_text(HintMentions(it.source_hints),
                                                     MATCH_THRESHOLD, MATCH_TOP_N))
        query_target == SourcesOf(_match_sources_from_text(q.mentions,
                                                           MATCH_THRESHOLD, MATCH_TOP_N))
    IN IF registry = {} THEN <<<<>>, FALSE>>
       ELSE IF hinted # <<>> THEN <<hinted, FALSE>>
       ELSE IF query_target # <<>> THEN <<query_target, FALSE>>
       ELSE IF personal_sources # <<>> THEN <<SortedSeq(Range(personal_sources)), TRUE>>
       ELSE <<SortedSeq(registry), TRUE>>

\* RoutingPlan: <<decisions, used_default_sources>>
route(it, q) ==
    LET sel == _select_sources(it, q)
    IN <<BuildDecisions(sel[1], q, it, _extract_filters(it)), sel[2]>>

decisions_for_sources(sources, q, it, extra) ==
    BuildDecisions(sources, q, it, _extract_filters(it) \o extra)

\* _build_fast_path_retrieval_plan
_build_fast_path_retrieval_plan(q, ordered_sources) ==
    IF Len(ordered_sources) < 2 THEN <<>>
    ELSE [i \in DOMAIN ordered_sources |->
            Step(<<ordered_sources[i]>>, i > 1 /\ q.cross_ref)]

----------------------------------------------------------------------------
(* Deterministic intent analyzer (intent_modules.py) *)

SOURCE_THRESHOLD == 550
AGG_THRESHOLD == 550

\* RetrievalRouter.infer_fast_path_intent: the retrieval plan, <<>> for None
FastPathPlan(q) ==
    IF q.text = "" THEN <<>>
    ELSE _build_fast_path_retrieval_plan(q,
            SourcesOf(_match_sources_from_text(q.mentions, MATCH_THRESHOLD, MATCH_TOP_N)))

TemporalConfidence(t) ==
    CASE t \in {"today", "yesterday"} -> 100
      [] t \in {"this week", "last week", "this month", "last month"} -> 95
      [] t \in {"most recent", "latest"} -> 90
      [] t = "recently" -> 85
      [] t = "recent" -> 80
      [] OTHER -> 0

QueryTypeConfidence(q) ==
    CASE q.text = "" -> 0
      [] q.qtype = "count" -> 95
      [] q.qtype = "aggregate" -> 80
      [] OTHER -> 45

\* _extract_source_hints after the fast-path floor, in thousandths
SourceConfidence(q) ==
    LET source_matches == _match_sources_from_text(q.mentions, 0, 5)
        raw_conf == IF source_matches = <<>> THEN 0 ELSE source_matches[1].confidence
    IN IF FastPathPlan(q) # <<>> THEN Max2(raw_conf, 700) ELSE raw_conf

EntityConfidence(q) == IF q.sender # "" THEN 75 ELSE 0

\* the weighted sum before rounding, in units of 1/100000
WeightedConfidence(q) ==
    45 * SourceConfidence(q) + 250 * QueryTypeConfidence(q)
    + 150 * TemporalConfidence(q.temporal) + 150 * EntityConfidence(q)

\* round(x, 3): from units of 1/100000 to thousandths
round3(x) == (x + 50) \div 100

\* DeterministicIntentAnalyzer.analyze: [intent, should_use_deterministic]
analyze(q) ==
    LET source_matches == _match_sources_from_text(q.mentions, 0, 5)
        fast_plan == FastPathPlan(q)
        aggregate_confidence == round3(WeightedConfidence(q))
    IN [intent |->
          Intent(IF q.sender # "" THEN <<Sender(q.sender)>> ELSE <<>>,
                 q.temporal, SourcesOf(source_matches),
                 IF fast_plan # <<>> THEN "multi_hop" ELSE "simple",
                 fast_plan, q.qtype, ""),
        aggregate_confidence |-> aggregate_confidence,
        should_use_deterministic |->
          (SourceConfidence(q) >= SOURCE_THRESHOLD \/ aggregate_confidence >= AGG_THRESHOLD)]

----------------------------------------------------------------------------
(* Weighted fusion ranker (fusion.py) *)

METHOD_WEIGHTS(m) ==
    CASE m = "structured" -> 100
      [] m = "fulltext" -> 85
      [] m = "vector" -> 70
      [] m = "graph" -> 90
      [] OTHER -> 50

\* a metadata value: its text, and the name and address the text
\* "Name <address>" holds
Header(name, email) ==
    [text |-> name \o " <" \o email \o ">", name |-> name, email |-> email]

\* metadata of the results a source returns: <<key, value>>, <<>> for none
ResultMetadata(source) ==
    CASE source = "email" -> <<"sender", Header("Alice", "alice@x")>>
      [] source = "cal" -> <<"organizer", [text |-> "Alice", name |-> "Alice", email |-> ""]>>
      [] OTHER -> <<>>

Result(source, id, source_class, scores) ==
    [source |-> source, id |-> id, source_class |-> source_class,
     scores |-> scores, methods_used |-> DOMAIN scores, metadata |-> ResultMetadata(source)]

RECURSIVE WeightedSum(_, _)
WeightedSum(scores, ms) ==
    IF ms = {} THEN 0
    ELSE LET m == CHOOSE x \in ms : TRUE
         IN scores[m] * METHOD_WEIGHTS(m) + WeightedSum(scores, ms \ {m})

RECURSIVE WeightSum(_)
WeightSum(ms) ==
    IF ms = {} THEN 0
    ELSE LET m == CHOOSE x \in ms : TRUE
         IN METHOD_WEIGHTS(m) + WeightSum(ms \ {m})

\* the fused score as the fraction <<numerator, denominator>>
compute_fused_score(r, is_personal_query) ==
    IF DOMAIN r.scores = {} THEN <<0, 1>>
    ELSE LET boost == IF is_personal_query
                      THEN (IF r.source_class = "personal" THEN 10 ELSE 8)
                      ELSE (IF r.source_class = "web" THEN 10 ELSE 9)
         IN <<WeightedSum(r.scores, DOMAIN r.scores) * boost, WeightSum(DOMAIN r.scores) * 10>>

ScoreGreater(a, b) == a[1] * b[2] > b[1] * a[2]
ScoreEqual(a, b) == a[1] * b[2] = b[1] * a[2]

\* the dictionary key of deduplicate_results
DedupKey(r) == r.source \o ":" \o r.id

MergeResult(existing, r) ==
    LET ms == DOMAIN existing.scores \cup DOMAIN r.scores
        merged_scores ==
            [m \in ms |->
               IF m \notin DOMAIN existing.scores THEN r.scores[m]
               ELSE IF m \in DOMAIN r.scores /\ r.scores[m] > existing.scores[m]
               THEN r.scores[m]
               ELSE existing.scores[m]]
    IN [existing EXCEPT !.scores = merged_scores,
                        !.methods_used = existing.methods_used \cup r.methods_used]

\* seen: the dictionary as the sequence of its values in insertion order
RECURSIVE DedupInto(_, _)
DedupInto(seen, results) ==
    IF results = <<>> THEN seen
    ELSE LET r == Head(results)
             hit == {i \in DOMAIN seen : DedupKey(seen[i]) = DedupKey(r)}
         IN IF hit = {} THEN DedupInto(Append(seen, r), Tail(results))
            ELSE LET i == CHOOSE j \in hit : TRUE
                 IN DedupInto([seen EXCEPT ![i] = MergeResult(seen[i], r)], Tail(results))

deduplicate_results(results) == DedupInto(<<>>, results)

\* list.sort(key=-score) is stable: an element goes after every element
\* whose score is greater than or equal to its own
RECURSIVE StableSortByScore(_, _)
StableSortByScore(rs, is_personal_query) ==
    IF rs = <<>> THEN <<>>
    ELSE LET n == Len(rs)
             init == StableSortByScore(SubSeq(rs, 1, n - 1), is_personal_query)
             x == rs[n]
             sx == compute_fused_score(x, is_personal_query)
             before == {i \in DOMAIN init :
                          ~ ScoreGreater(sx, compute_fused_score(init[i], is_personal_query))}
             k == Cardinality(before)
         IN SubSeq(init, 1, k) \o <<x>> \o SubSeq(init, k + 1, Len(init))

fuse_and_rank(results, is_personal_query, limit) ==
    IF results = <<>> THEN <<>>
    ELSE SliceTo(StableSortByScore(deduplicate_results(results), is_personal_query), limit)

----------------------------------------------------------------------------
(* Backends: what one backend call may answer.  count -1 is None. *)

Outcome(kind, results, cnt, aggs) ==
    [kind |-> kind, results |-> results, count |-> cnt, aggregates |-> aggs]

AggregateGroup(group_value, cnt, label) ==
    [group_value |-> group_value, count |-> cnt, label |-> label]

LoResults(s) == <<Result(s, "1", Caps(s).source_class, [vector |-> 30])>>

\* three results: confident ones from email, weak ones from the others
HiResults(s) ==
    LET v == IF s = "email" THEN 90 ELSE 40
    IN <<Result(s, "1", Caps(s).source_class, [vector |-> v]),
         Result(s, "2", Caps(s).source_class, [vector |-> v]),
         Result(s, "3", Caps(s).source_class, [structured |-> 80])>>

ResultLists(s) == {<<>>, LoResults(s), HiResults(s)}

\* answers of an MCP call function to unified_search
McpOutcomes(d) ==
    {Outcome(k, <<>>, -1, <<>>) : k \in {"throw", "success_false", "bad_json", "not_a_dict"}}
    \cup (CASE d.mode = "count" ->
                 {Outcome("ok", <<>>, 5, <<>>), Outcome("ok", <<>>, -1, <<>>)}
            [] d.mode = "aggregate" ->
                 {Outcome("ok", <<>>, -1, <<AggregateGroup("a@x", 3, "Alice")>>),
                  Outcome("ok", <<>>, -1, <<>>)}
            [] OTHER -> {Outcome("ok", rs, -1, <<>>) : rs \in ResultLists(d.source)})

\* behaviours of a direct backend's search
DirectOutcomes(d) ==
    {Outcome("throw", <<>>, -1, <<>>)}
    \cup {Outcome("ok", rs, -1, <<>>) : rs \in ResultLists(d.source)}

Outcomes(d) ==
    IF Caps(d.source).handler = "mcp" THEN McpOutcomes(d) ELSE DirectOutcomes(d)

RECURSIVE OutcomeSeqs(_)
OutcomeSeqs(decs) ==
    IF decs = <<>> THEN {<<>>}
    ELSE {<<o>> \o rest : o \in Outcomes(Head(decs)), rest \in OutcomeSeqs(Tail(decs))}

Failed(o) == o.kind # "ok"

\* Backends are deterministic within one search: a request repeated
\* verbatim is answered as it was before.
BatchOutcomes(decs) ==
    {outs \in OutcomeSeqs(decs) :
        \A i \in DOMAIN decs :
            \A p \in answered : p[1] = decs[i] => p[2] = outs[i]}

Answered(decs, outs) == answered \cup {<<decs[i], outs[i]>> : i \in DOMAIN decs}

----------------------------------------------------------------------------
(* Dispatcher (dispatcher.py) and execution (orchestrator.py) *)

DispatcherResult(results, cnt, aggs, source) ==
    [results |-> results, count |-> cnt, aggregates |-> aggs, source |-> source,
     raised |-> FALSE]

\* _parse_response raises on a payload that is not a mapping
ParseRaised(source) ==
    [results |-> <<>>, count |-> -1, aggregates |-> <<>>, source |-> source, raised |-> TRUE]

\* MCPSearchDispatcher.search followed by _parse_response
DispatcherSearch(d, o) ==
    CASE o.kind = "throw" -> DispatcherResult(<<>>, -1, <<>>, d.source)
      [] o.kind = "success_false" -> DispatcherResult(<<>>, -1, <<>>, d.source)
      [] o.kind = "bad_json" -> DispatcherResult(<<>>, -1, <<>>, d.source)
      [] o.kind = "not_a_dict" -> ParseRaised(d.source)
      [] OTHER -> DispatcherResult(o.results, o.count, o.aggregates, d.source)

\* _execute_one: [results, errors, dres]
_execute_one(d, o) ==
    IF Caps(d.source).handler = "mcp"
    THEN LET dres == DispatcherSearch(d, o)
         IN IF dres.raised
            THEN [results |-> <<>>,
                  errors |-> <<d.source \o ": MCP call failed: " \o "bad payload">>,
                  dres |-> DispatcherResult(<<>>, -1, <<>>, d.source)]
            ELSE [results |-> dres.results, errors |-> <<>>, dres |-> dres]
    ELSE IF o.kind = "throw"
    THEN [results |-> <<>>, errors |-> <<d.source \o ": " \o "boom">>,
          dres |-> DispatcherResult(<<>>, -1, <<>>, d.source)]
    ELSE [results |-> o.results, errors |-> <<>>,
          dres |-> DispatcherResult(o.results, -1, <<>>, d.source)]

\* _execute_routing: the gathered parts, folded in decision order
_execute_routing(decs, outs) ==
    LET parts == [i \in DOMAIN decs |-> _execute_one(decs[i], outs[i])]
        counted == {i \in DOMAIN parts : parts[i].dres.count # -1}
        grouped == {i \in DOMAIN parts : parts[i].dres.aggregates # <<>>}
        first(S) == CHOOSE i \in S : \A j \in S : i <= j
    IN [results |-> Flatten([i \in DOMAIN parts |-> parts[i].results]),
        errors |-> Flatten([i \in DOMAIN parts |-> parts[i].errors]),
        count |-> IF counted = {} THEN <<>>
                  ELSE <<parts[first(counted)].dres.count, parts[first(counted)].dres.source>>,
        aggregates |-> IF grouped = {} THEN <<>>
                       ELSE <<parts[first(grouped)].dres.aggregates,
                              parts[first(grouped)].dres.source>>]

\* sources of the decisions of a batch whose backend call failed
FailedSources(decs, outs) ==
    LET idx == SelectSeq([i \in DOMAIN decs |-> i], LAMBDA i : Failed(outs[i]))
    IN [k \in DOMAIN idx |-> decs[idx[k]].source]

----------------------------------------------------------------------------
(* Entity extraction between multi-hop steps (entity_extraction.py) *)

\* _extract_value_from_rule: the value, "" for None
_extract_value_from_rule(metadata, rule) ==
    IF metadata = <<>> \/ metadata[1] # rule.metadata_key THEN ""
    ELSE IF rule.parser = "email_from_header"
    THEN (CASE rule.target_field = "from_name" -> metadata[2].name
            [] rule.target_field = "from_email" -> metadata[2].email
            [] OTHER -> "")
    ELSE metadata[2].text

\* ExtractedEntity.to_filters of the values the rules of one result give
RuleFilters(r, rules) ==
    LET hits == SelectSeq(rules, LAMBDA rule : _extract_value_from_rule(r.metadata, rule) # "")
    IN [i \in DOMAIN hits |->
          Filter(hits[i].target_field, "contains",
                 _extract_value_from_rule(r.metadata, hits[i]))]

\* extract_from_metadata: the filters of the first result whose source
\* declares rules that give a value; without a capability_lookup no source
\* has rules
RECURSIVE extract_from_metadata(_, _)
extract_from_metadata(results, capability_lookup) ==
    IF results = <<>> THEN <<>>
    ELSE LET r == Head(results)
             rules == IF capability_lookup /\ r.source \in registry
                      THEN Caps(r.source).entity_extraction_rules ELSE <<>>
             own == IF r.metadata = <<>> THEN <<>> ELSE RuleFilters(r, rules)
         IN IF own # <<>> THEN own
            ELSE extract_from_metadata(Tail(results), capability_lookup)

\* extract_entity(...).to_filters(): the metadata rules first, then what the
\* language model says of the results
extract_entity(results, capability_lookup, llm_answer) ==
    LET entity == extract_from_metadata(results, capability_lookup)
    IN IF entity # <<>> THEN entity
       ELSE IF results # <<>> THEN llm_answer
       ELSE <<>>

----------------------------------------------------------------------------
(* Refinement policy (orchestrator.py) *)

BROAD_MAX_SOURCES == 3
REFINE_MAX_DECISIONS == 4

MaxScore(r) ==
    IF DOMAIN r.scores = {} THEN 0
    ELSE CHOOSE v \in {r.scores[m] : m \in DOMAIN r.scores} :
           \A m \in DOMAIN r.scores : r.scores[m] <= v

_should_refine_filters_first(results, it, decs) ==
    LET has_filters == \E i \in DOMAIN decs : decs[i].filters # <<>>
        total == SeqSum([i \in DOMAIN results |-> MaxScore(results[i])])
        sources == {results[i].source : i \in DOMAIN results}
    IN IF results = <<>>
       THEN (IF has_filters THEN "" ELSE "no_results")
       ELSE IF Len(results) < 3 THEN "low_source_coverage"
       ELSE IF total < 70 * Len(results) THEN "low_confidence"
       ELSE IF Cardinality(sources) = 1 /\ Len(it.source_hints) > 1
       THEN (IF it.complexity = "multi_hop" THEN "" ELSE "single_source")
       ELSE ""

\* _should_refine: the reason, "" when no refinement is due
_should_refine(results, it, decs) ==
    LET multi_hop == it.complexity = "multi_hop"
        has_filters == \E i \in DOMAIN decs : decs[i].filters # <<>>
        total == SeqSum([i \in DOMAIN results |-> MaxScore(results[i])])
        sources == {results[i].source : i \in DOMAIN results}
    IN IF results = <<>>
       THEN (IF has_filters /\ ~ multi_hop THEN "" ELSE "no_results")
       ELSE IF Len(results) < 3 THEN "low_source_coverage"
       ELSE IF total < 70 * Len(results) THEN "low_confidence"
       ELSE IF Cardinality(sources) = 1 /\ Len(it.source_hints) > 1
       THEN (IF multi_hop THEN "" ELSE "single_source")
       ELSE ""

RefinedDecision(d, methods, filters) ==
    [source |-> d.source, methods |-> methods, query |-> d.query, filters |-> filters,
     mode |-> "search", group_by |-> ""]

RECURSIVE RefineEach(_, _, _)
RefineEach(reason, results, prev) ==
    IF prev = <<>> THEN <<>>
    ELSE LET d == Head(prev)
             actual_sources == {results[i].source : i \in DOMAIN results}
             new_methods ==
                 (IF ~ InSeq("fulltext", d.methods) /\ can_handle(d.source, "fulltext")
                  THEN <<"fulltext">> ELSE <<>>)
                 \o (IF ~ InSeq("vector", d.methods) /\ can_handle(d.source, "vector")
                     THEN <<"vector">> ELSE <<>>)
             own ==
                 CASE reason = "no_results" ->
                        <<RefinedDecision(d,
                            <<"vector">> \o (IF can_handle(d.source, "structured")
                                             THEN <<"structured">> ELSE <<>>),
                            <<>>)>>
                   [] reason = "low_source_coverage" ->
                        IF d.source \notin actual_sources
                        THEN <<RefinedDecision(d, d.methods, <<>>)>> ELSE <<>>
                   [] reason = "low_confidence" ->
                        IF new_methods # <<>>
                        THEN <<RefinedDecision(d, new_methods, d.filters)>> ELSE <<>>
                   [] reason = "single_source" ->
                        IF d.source \notin actual_sources
                        THEN <<RefinedDecision(d, d.methods, d.filters)>> ELSE <<>>
                   [] OTHER -> <<>>
         IN own \o RefineEach(reason, results, Tail(prev))

_refine_uncapped(reason, results, prev) == RefineEach(reason, results, prev)

_refine(reason, results, prev) ==
    SliceTo(RefineEach(reason, results, prev), REFINE_MAX_DECISIONS)

\* sorted(decisions, key=(0 if personal else 1, source))
RECURSIVE SortBroad(_)
SortBroad(D) ==
    IF D = {} THEN <<>>
    ELSE LET key(d) == (IF InSeq(d.source, personal_sources) THEN 0 ELSE 100) + StrRank(d.source)
             m == CHOOSE x \in D : \A y \in D : key(x) <= key(y)
         IN <<m>> \o SortBroad(D \ {m})

_cap_broad_decisions_none(decs) == decs

_cap_broad_decisions(decs) ==
    LET ordered == SliceTo(SortBroad(Range(decs)), Max2(1, BROAD_MAX_SOURCES))
        preferred(d) ==
            (IF InSeq("structured", d.methods) THEN <<"structured">> ELSE <<>>)
            \o (IF InSeq("fulltext", d.methods) THEN <<"fulltext">>
                ELSE IF InSeq("vector", d.methods) THEN <<"vector">> ELSE <<>>)
        chosen(d) == IF preferred(d) # <<>> THEN preferred(d)
                     ELSE IF d.methods # <<>> THEN SliceTo(d.methods, 2)
                     ELSE <<"vector">>
    IN [i \in DOMAIN ordered |-> [ordered[i] EXCEPT !.methods = chosen(ordered[i])]]

_is_personal_query(decs) ==
    LET known == {i \in DOMAIN decs : decs[i].source \in registry}
    IN IF decs = <<>> THEN TRUE
       ELSE IF \E i \in known : Caps(decs[i].source).source_class # "web" THEN TRUE
       ELSE IF known # {} THEN FALSE
       ELSE TRUE

\* _validate_retrieval_plan: the plan is usable
_validate_retrieval_plan(plan) ==
    /\ Len(plan) >= 2
    /\ \A i \in DOMAIN plan :
         /\ plan[i].sources # <<>>
         /\ \A j \in DOMAIN plan[i].sources : plan[i].sources[j] \in registry

use_multihop(it) == it.complexity = "multi_hop" /\ _validate_retrieval_plan(it.retrieval_plan)

----------------------------------------------------------------------------
(* UniversalSearchOrchestrator.search as a state machine; the coroutine    *)
(* is cut at its awaits.                                                   *)

Registries == {{}, {"web"}, {"email"}, {"email", "cal"}, {"email", "cal", "web"}}

MaxResultsArgs == {-1, 0, 1, 20}

\* answers of the language model to the intent prompt that are not an object
LlmFailures == {"throw", "not_an_object"}

\* what extract_entity returns through its language-model fallback
EntityAnswers ==
    {<<>>, <<Filter("from_name", "contains", "Alice")>>}

NoIntent == DefaultIntent

\* no direct fan-out run and no direct dispatcher call is under way
AuxIdle ==
    /\ _capabilities = <<>>
    /\ gather_plan = <<>>
    /\ arrived = <<>>
    /\ mcp_routing = <<>>
    /\ sent_args = <<>>
    /\ returned = <<>>

Init ==
    /\ registry \in Registries
    /\ max_rounds \in 0..MaxRounds
    /\ pc = "idle"
    /\ query = Q("", <<>>, "", "", "search", FALSE)
    /\ intent = NoIntent
    /\ intent_path = ""
    /\ plan_step = 1
    /\ extra_filters = <<>>
    /\ decisions = <<>>
    /\ used_default = FALSE
    /\ all_results = <<>>
    /\ errors = <<>>
    /\ notes = <<>>
    /\ iterations = 0
    /\ round = 0
    /\ count = <<>>
    /\ aggregates = <<>>
    /\ ranked = <<>>
    /\ max_results = 20
    /\ do_refinement = TRUE
    /\ is_personal = TRUE
    /\ batches = <<>>
    /\ failures = <<>>
    /\ refine_log = <<>>
    /\ answered = {}
    /\ fuse_in = <<>>
    /\ AuxIdle

\* the early returns of search(): an empty response with one error
EarlyReturn(message) ==
    /\ pc' = "done"
    /\ errors' = (IF errors # <<>> THEN errors ELSE <<message>>)
    /\ ranked' = <<>>
    /\ iterations' = 0

\* search() called with empty user_message and conversation_context
SearchEmptyContext ==
    /\ pc = "idle"
    /\ \E mr \in MaxResultsArgs, dr \in BOOLEAN :
         /\ max_results' = mr
         /\ do_refinement' = dr
    /\ EarlyReturn("No context provided for search.")
    /\ UNCHANGED <<registry, max_rounds, query, intent, intent_path, plan_step,
                   extra_filters, decisions, used_default, all_results, notes, round,
                   count, aggregates, is_personal, batches, failures, refine_log, answered, fuse_in, aux>>

\* search() called with a context: the query is built.  The argument
\* max_results is read by the fusion step only, where its value is drawn.
SearchCall ==
    /\ pc = "idle"
    /\ \E q \in Queries, dr \in BOOLEAN :
         /\ query' = q
         /\ do_refinement' = dr
    /\ pc' = "intent"
    /\ UNCHANGED <<registry, max_rounds, intent, intent_path, plan_step, extra_filters,
                   decisions, used_default, all_results, errors, notes, iterations, round,
                   count, aggregates, ranked, max_results, is_personal, batches, failures,
                   refine_log, answered, fuse_in, aux>>

UnchangedAfterIntent ==
    UNCHANGED <<registry, max_rounds, query, plan_step, extra_filters, decisions,
                used_default, all_results, errors, notes, iterations, round, count,
                aggregates, ranked, max_results, do_refinement, is_personal, batches,
                failures, refine_log, answered, fuse_in, aux>>

\* the deterministic gate passes
IntentDeterministic ==
    /\ pc = "intent"
    /\ analyze(query).should_use_deterministic
    /\ intent' = analyze(query).intent
    /\ intent_path' = "deterministic"
    /\ pc' = "route"
    /\ UnchangedAfterIntent

\* the gate fails and _analyze_intent gets an intent object (the default
\* object when the model's text is not JSON)
IntentLlm ==
    /\ pc = "intent"
    /\ ~ analyze(query).should_use_deterministic
    /\ \E it \in LlmIntents \cup {DefaultIntent} : intent' = it
    /\ intent_path' = "llm"
    /\ pc' = "route"
    /\ UnchangedAfterIntent

\* the gate fails and the model call throws, or its JSON is not an object
\* (intent.get then fails): nothing in search() catches either
IntentLlmRaises ==
    /\ pc = "intent"
    /\ ~ analyze(query).should_use_deterministic
    /\ \E f \in LlmFailures : pc' = "raised"
    /\ UNCHANGED <<intent, intent_path>>
    /\ UnchangedAfterIntent

\* single-step path with no routable backend
RouteNothing ==
    /\ pc = "route"
    /\ ~ use_multihop(intent)
    /\ route(intent, query)[1] = <<>>
    /\ EarlyReturn("No search backends available for this query")
    /\ UNCHANGED <<registry, max_rounds, query, intent, intent_path, plan_step,
                   extra_filters, decisions, used_default, all_results, notes, round,
                   count, aggregates, max_results, do_refinement, is_personal, batches,
                   failures, refine_log, answered, fuse_in, aux>>

\* single-step path: route, cap a broad default routing, execute the batch
RouteSingle ==
    /\ pc = "route"
    /\ ~ use_multihop(intent)
    /\ LET plan == route(intent, query)
           run == IF plan[2] THEN _cap_broad_decisions(plan[1]) ELSE plan[1]
       IN /\ plan[1] # <<>>
          /\ decisions' = run
          /\ used_default' = plan[2]
          /\ notes' = (IF plan[2]
                       THEN <<"No explicit source hint detected; ran capped broad search.">>
                       ELSE <<>>)
          /\ is_personal' = _is_personal_query(run)
          /\ \E outs \in BatchOutcomes(run) :
               LET ex == _execute_routing(run, outs)
               IN /\ all_results' = ex.results
                  /\ errors' = errors \o ex.errors
                  /\ count' = ex.count
                  /\ aggregates' = ex.aggregates
                  /\ batches' = Append(batches, run)
                  /\ failures' = failures \o FailedSources(run, outs)
                  /\ answered' = Answered(run, outs)
    /\ iterations' = 1
    /\ pc' = "refine"
    /\ UNCHANGED <<registry, max_rounds, query, intent, intent_path, plan_step,
                   extra_filters, round, ranked, max_results, do_refinement, refine_log,
                   fuse_in, aux>>

\* _run_multihop, the part of one pass of its loop before the batch:
\* the step's sources narrowed to from-capable ones, and its decisions
StepSources(step, extra) ==
    LET fields == {extra[i].field : i \in DOMAIN extra}
        supporting == Range(sources_supporting_filter("from_name"))
                      \cup Range(sources_supporting_filter("from_email"))
    IN IF step.entity_from_previous /\ extra # <<>>
          /\ fields \cap {"from_name", "from_email"} # {} /\ supporting # {}
       THEN SelectSeq(step.sources, LAMBDA s : s \in supporting)
       ELSE step.sources

StepDecisions(it, q, k, extra) ==
    decisions_for_sources(StepSources(it.retrieval_plan[k], extra), q, it, extra)

\* extra_filters prepared for the next step from this step's outcome
NextExtraFilters(it, k, ex, entity) ==
    LET plan == it.retrieval_plan
    IN IF k + 1 <= Len(plan) /\ plan[k + 1].entity_from_previous
       THEN IF ex.aggregates # <<>>
            THEN LET top == ex.aggregates[1][1]
                     name == IF top.label # "" THEN top.label ELSE top.group_value
                 IN IF name # "" THEN <<Filter("from_name", "contains", name)>> ELSE <<>>
            ELSE IF ex.results # <<>> THEN entity
            ELSE <<>>
       ELSE <<>>

\* the step's results go to extract_entity, which _run_multihop calls
\* without a capability_lookup
NeedsEntity(it, k, ex) ==
    /\ k + 1 <= Len(it.retrieval_plan)
    /\ it.retrieval_plan[k + 1].entity_from_previous
    /\ ex.aggregates = <<>>
    /\ ex.results # <<>>

MergeLast(kept, step_value) == IF step_value # <<>> THEN step_value ELSE kept

\* _run_multihop keeps the count (the aggregates) of the first step that has one
MergeFirst(kept, step_value) ==
    IF step_value # <<>> /\ kept = <<>> THEN step_value ELSE kept

InMultihop == (pc = "route" /\ use_multihop(intent)) \/ pc = "multihop"

\* what follows the last step of the plan
AfterMultihop(last, decs) ==
    IF ~ last
    THEN /\ pc' = "multihop"
         /\ UNCHANGED <<iterations, ranked, is_personal>>
         /\ errors' = errors
    ELSE IF decs = <<>>
    THEN /\ EarlyReturn("Multi-hop produced no decisions.")
         /\ UNCHANGED is_personal
    ELSE /\ pc' = "refine"
         /\ iterations' = 1
         /\ is_personal' = _is_personal_query(decs)
         /\ errors' = errors
         /\ UNCHANGED ranked

\* a step whose narrowed source list gives no decision is skipped
MultihopSkip ==
    /\ InMultihop
    /\ StepDecisions(intent, query, plan_step, extra_filters) = <<>>
    /\ plan_step' = plan_step + 1
    /\ AfterMultihop(plan_step = Len(intent.retrieval_plan), decisions)
    /\ UNCHANGED <<registry, max_rounds, query, intent, intent_path, extra_filters,
                   decisions, used_default, all_results, notes, round, count, aggregates,
                   max_results, do_refinement, batches, failures, refine_log, answered, fuse_in, aux>>

\* one step of the plan: its batch, then the entity for the next step
MultihopStep ==
    /\ InMultihop
    /\ LET decs == StepDecisions(intent, query, plan_step, extra_filters)
           last == plan_step = Len(intent.retrieval_plan)
       IN /\ decs # <<>>
          /\ \E outs \in BatchOutcomes(decs) :
               LET ex == _execute_routing(decs, outs)
               IN /\ all_results' = all_results \o ex.results
                  /\ count' = MergeFirst(count, ex.count)
                  /\ aggregates' = MergeFirst(aggregates, ex.aggregates)
                  /\ failures' = failures \o FailedSources(decs, outs)
                  /\ answered' = Answered(decs, outs)
                  /\ \E llm_answer \in (IF NeedsEntity(intent, plan_step, ex)
                                        THEN EntityAnswers ELSE {<<>>}) :
                       extra_filters' =
                           NextExtraFilters(intent, plan_step, ex,
                                            extract_entity(ex.results, FALSE, llm_answer))
                  /\ IF last
                     THEN /\ pc' = "refine"
                          /\ iterations' = 1
                          /\ is_personal' = _is_personal_query(decisions \o decs)
                     ELSE /\ pc' = "multihop"
                          /\ UNCHANGED <<iterations, is_personal>>
                  /\ errors' = errors \o ex.errors
          /\ decisions' = decisions \o decs
          /\ batches' = Append(batches, decs)
    /\ plan_step' = plan_step + 1
    /\ UNCHANGED <<registry, max_rounds, query, intent, intent_path, used_default, notes,
                   round, ranked, max_results, do_refinement, refine_log, fuse_in, aux>>

----------------------------------------------------------------------------
(* Refinement loop and fusion *)

skip_refinement == decisions # <<>> /\ decisions[1].mode \in {"count", "aggregate"}

\* the loop `for _ in range(max_refinement_rounds)` has a pass left
LoopOpen == do_refinement /\ ~ skip_refinement /\ round < max_rounds

LogEntry(reason, executed) == [reason |-> reason, executed |-> executed]

\* _should_refine finds nothing to refine: the loop breaks
RefineStop ==
    /\ pc = "refine"
    /\ LoopOpen
    /\ _should_refine(all_results, intent, decisions) = ""
    /\ notes' = (IF all_results = <<>> /\ \E i \in DOMAIN decisions : decisions[i].filters # <<>>
                 THEN Append(notes, "No data found for the requested criteria.")
                 ELSE notes)
    /\ refine_log' = Append(refine_log, LogEntry("", FALSE))
    /\ round' = round + 1
    /\ pc' = "fuse"
    /\ UNCHANGED <<registry, max_rounds, query, intent, intent_path, plan_step,
                   extra_filters, decisions, used_default, all_results, errors, iterations,
                   count, aggregates, ranked, max_results, do_refinement, is_personal,
                   batches, failures, answered, fuse_in, aux>>

\* a reason is found but _refine yields no decision: the loop breaks
RefineNoDecisions ==
    /\ pc = "refine"
    /\ LoopOpen
    /\ LET reason == _should_refine(all_results, intent, decisions)
       IN /\ reason # ""
          /\ _refine(reason, all_results, decisions) = <<>>
          /\ refine_log' = Append(refine_log, LogEntry(reason, FALSE))
    /\ iterations' = iterations + 1
    /\ round' = round + 1
    /\ pc' = "fuse"
    /\ UNCHANGED <<registry, max_rounds, query, intent, intent_path, plan_step,
                   extra_filters, decisions, used_default, all_results, errors, notes,
                   count, aggregates, ranked, max_results, do_refinement, is_personal,
                   batches, failures, answered, fuse_in, aux>>

\* a reason is found and its refinement batch is executed
RefineExecute ==
    /\ pc = "refine"
    /\ LoopOpen
    /\ LET reason == _should_refine(all_results, intent, decisions)
           refined == _refine(reason, all_results, decisions)
       IN /\ reason # ""
          /\ refined # <<>>
          /\ \E outs \in BatchOutcomes(refined) :
               LET ex == _execute_routing(refined, outs)
               IN /\ all_results' = all_results \o ex.results
                  /\ errors' = errors \o ex.errors
                  /\ failures' = failures \o FailedSources(refined, outs)
                  /\ answered' = Answered(refined, outs)
          /\ batches' = Append(batches, refined)
          /\ refine_log' = Append(refine_log, LogEntry(reason, TRUE))
    /\ iterations' = iterations + 1
    /\ round' = round + 1
    /\ pc' = "refine"
    /\ UNCHANGED <<registry, max_rounds, query, intent, intent_path, plan_step,
                   extra_filters, decisions, used_default, notes, count, aggregates, ranked,
                   max_results, do_refinement, is_personal, fuse_in, aux>>

\* fusion ranking and assembly of the response
Fuse ==
    /\ pc = "fuse" \/ (pc = "refine" /\ ~ LoopOpen)
    /\ \E mr \in MaxResultsArgs :
         /\ max_results' = mr
         /\ ranked' = fuse_and_rank(all_results, is_personal, mr)
    /\ pc' = "done"
    /\ UNCHANGED <<registry, max_rounds, query, intent, intent_path, plan_step,
                   extra_filters, decisions, used_default, all_results, errors, notes,
                   iterations, round, count, aggregates, do_refinement,
                   is_personal, batches, failures, refine_log, answered, fuse_in, aux>>

Next ==
    \/ SearchEmptyContext
    \/ SearchCall
    \/ IntentDeterministic
    \/ IntentLlm
    \/ IntentLlmRaises
    \/ RouteNothing
    \/ RouteSingle
    \/ MultihopSkip
    \/ MultihopStep
    \/ RefineStop
    \/ RefineNoDecisions
    \/ RefineExecute
    \/ Fuse

Spec == Init /\ [][Next]_vars

----------------------------------------------------------------------------
(* fuse_and_rank called directly on an arbitrary result list *)

FusePool ==
    { Result("a", "1", "personal", [vector |-> 90]),
      Result("a", "1", "personal", [vector |-> 50, fulltext |-> 60]),
      Result("a", "2", "personal", [vector |-> 90]),
      Result("b", "1", "web", [structured |-> 70]),
      Result("a", "b:c", "personal", [vector |-> 80]),
      Result("a:b", "c", "personal", [structured |-> 40]) }

RECURSIVE SeqsUpTo(_, _)
SeqsUpTo(S, n) ==
    IF n = 0 THEN {<<>>}
    ELSE LET shorter == SeqsUpTo(S, n - 1)
         IN shorter \cup {Append(t, x) : t \in shorter, x \in S}

InitFusion ==
    /\ registry = {}
    /\ max_rounds = 0
    /\ pc = "fuse_call"
    /\ query = Q("", <<>>, "", "", "search", FALSE)
    /\ intent = NoIntent
    /\ intent_path = ""
    /\ plan_step = 1
    /\ extra_filters = <<>>
    /\ decisions = <<>>
    /\ used_default = FALSE
    /\ all_results = <<>>
    /\ errors = <<>>
    /\ notes = <<>>
    /\ iterations = 0
    /\ round = 0
    /\ count = <<>>
    /\ aggregates = <<>>
    /\ ranked = <<>>
    /\ max_results \in {2, 20}
    /\ do_refinement = TRUE
    /\ is_personal \in BOOLEAN
    /\ batches = <<>>
    /\ failures = <<>>
    /\ refine_log = <<>>
    /\ answered = {}
    /\ fuse_in \in SeqsUpTo(FusePool, MaxFuseLen)
    /\ AuxIdle

FuseCall ==
    /\ pc = "fuse_call"
    /\ ranked' = fuse_and_rank(fuse_in, is_personal, max_results)
    /\ pc' = "fuse_done"
    /\ UNCHANGED <<registry, max_rounds, query, intent, intent_path, plan_step,
                   extra_filters, decisions, used_default, all_results, errors, notes,
                   iterations, round, count, aggregates, max_results, do_refinement,
                   is_personal, batches, failures, refine_log, answered, fuse_in, aux>>

NextFusion == FuseCall

SpecFusion == InitFusion /\ [][NextFusion]_vars

----------------------------------------------------------------------------
(* search() on registries large enough for the cap of a broad default      *)
(* routing to bite, with max_refinement_rounds = 0.                         *)

BroadPersonal == <<"email", "cal", "chat", "notes", "tasks">>

BroadWeb == <<"web", "news", "wiki", "blog">>

Prefix(seq, n) == Range(SubSeq(seq, 1, Min2(n, Len(seq))))

BroadRegistries ==
    {Prefix(BroadPersonal, n) \cup Prefix(BroadWeb, m) :
        n \in {0, 1, MaxRegistered}, m \in {0, MaxRegistered}}

InitBroad ==
    /\ registry \in BroadRegistries
    /\ max_rounds = 0
    /\ pc = "idle"
    /\ query = Q("", <<>>, "", "", "search", FALSE)
    /\ intent = NoIntent
    /\ intent_path = ""
    /\ plan_step = 1
    /\ extra_filters = <<>>
    /\ decisions = <<>>
    /\ used_default = FALSE
    /\ all_results = <<>>
    /\ errors = <<>>
    /\ notes = <<>>
    /\ iterations = 0
    /\ round = 0
    /\ count = <<>>
    /\ aggregates = <<>>
    /\ ranked = <<>>
    /\ max_results = 20
    /\ do_refinement = TRUE
    /\ is_personal = TRUE
    /\ batches = <<>>
    /\ failures = <<>>
    /\ refine_log = <<>>
    /\ answered = {}
    /\ fuse_in = <<>>
    /\ AuxIdle

\* with no refinement round allowed the loop body never runs
NextBroad ==
    \/ SearchEmptyContext
    \/ SearchCall
    \/ IntentDeterministic
    \/ IntentLlm
    \/ IntentLlmRaises
    \/ RouteNothing
    \/ RouteSingle
    \/ MultihopSkip
    \/ MultihopStep
    \/ Fuse

SpecBroad == InitBroad /\ [][NextBroad]_vars

----------------------------------------------------------------------------
(* The intent gate of search() on queries whose confidences lie around the *)
(* two thresholds; the run is followed up to the end of intent analysis.    *)

GateQueries ==
    { Q("", <<>>, "", "", "search", FALSE),
      Q("q", <<>>, "today", "Bob", "count", FALSE),
      Q("q", <<M("email", 549)>>, "", "", "search", FALSE),
      Q("q", <<M("email", 550)>>, "", "", "search", FALSE),
      Q("q", <<M("email", 400)>>, "today", "Bob", "count", FALSE),
      Q("q", <<M("email", 526)>>, "", "Bob", "aggregate", FALSE),
      Q("q", <<M("email", 527)>>, "", "Bob", "aggregate", FALSE),
      Q("q", <<M("cal", 400), M("email", 350)>>, "", "", "search", TRUE) }

InitGate ==
    /\ registry \in Registries
    /\ max_rounds \in 0..MaxRounds
    /\ pc = "gate_idle"
    /\ query = Q("", <<>>, "", "", "search", FALSE)
    /\ intent = NoIntent
    /\ intent_path = ""
    /\ plan_step = 1
    /\ extra_filters = <<>>
    /\ decisions = <<>>
    /\ used_default = FALSE
    /\ all_results = <<>>
    /\ errors = <<>>
    /\ notes = <<>>
    /\ iterations = 0
    /\ round = 0
    /\ count = <<>>
    /\ aggregates = <<>>
    /\ ranked = <<>>
    /\ max_results = 20
    /\ do_refinement = TRUE
    /\ is_personal = TRUE
    /\ batches = <<>>
    /\ failures = <<>>
    /\ refine_log = <<>>
    /\ answered = {}
    /\ fuse_in = <<>>
    /\ AuxIdle

\* search() called with a context: the query is built
SearchCallGate ==
    /\ pc = "gate_idle"
    /\ \E q \in GateQueries, dr \in BOOLEAN :
         /\ query' = q
         /\ do_refinement' = dr
    /\ pc' = "intent"
    /\ UNCHANGED <<registry, max_rounds, intent, intent_path, plan_step, extra_filters,
                   decisions, used_default, all_results, errors, notes, iterations, round,
                   count, aggregates, ranked, max_results, is_personal, batches, failures,
                   refine_log, answered, fuse_in, aux>>

NextGate == SearchCallGate \/ IntentDeterministic \/ IntentLlm \/ IntentLlmRaises

SpecGate == InitGate /\ [][NextGate]_vars

----------------------------------------------------------------------------
(* score_sources_from_text called on its own.  A text is represented, for  *)
(* each registered source, by what the scoring loop reads from it: how many *)
(* aliases occur, whether the text is an alias, how many aliases are        *)
(* negated, the overlap k of m source tokens, and the first position (-1    *)
(* when no alias occurs).  Scores are in units of 1/100000, confidences of  *)
(* a SourceMatch in thousandths.                                            *)

Evidence(found, exact, negated, k, m, first_pos) ==
    [found |-> found, exact |-> exact, negated |-> negated, k |-> k, m |-> m,
     first_pos |-> first_pos]

EvidenceKinds ==
    { Evidence(0, 0, 0, 0, 1, -1),      \* the source is not mentioned
      Evidence(0, 0, 0, 1, 2, -1),      \* one of two tokens, no alias
      Evidence(1, 0, 0, 1, 1, 0),       \* its alias opens the text
      Evidence(1, 1, 0, 1, 1, 0),       \* the text is its alias
      Evidence(1, 0, 1, 1, 1, 4),       \* "not <alias>"
      Evidence(1, 0, 0, 1, 2, 140) }    \* its alias late in the text

ScoreSources == {"email", "cal", "web"}

ScoreThresholds == {0, 175, 196, 900, 1000}

\* the score of one source before clamping
RawScore(e) ==
    35000 * e.found + 50000 * e.exact - 70000 * e.negated
    + (IF e.k > 0 THEN Min2(35000, (35000 * e.k) \div e.m) ELSE 0)
    + (IF e.first_pos >= 0 THEN Max2(0, 20000 - 100 * Min2(e.first_pos, 200)) ELSE 0)

Clamp(score) == Max2(0, Min2(100000, score))

\* one entry of the list "scored": (confidence, first_pos or 9999, SourceMatch)
Scored(source, e) ==
    [confidence |-> Clamp(RawScore(e)),
     pos |-> IF e.first_pos >= 0 THEN e.first_pos ELSE 9999,
     match |-> M(source, round3(Clamp(RawScore(e))))]

\* the sort key (-confidence, pos, source)
ScoredBefore(a, b) ==
    \/ a.confidence > b.confidence
    \/ a.confidence = b.confidence /\ a.pos < b.pos
    \/ a.confidence = b.confidence /\ a.pos = b.pos
          /\ StrRank(a.match.source) <= StrRank(b.match.source)

RECURSIVE SortScored(_)
SortScored(S) ==
    IF S = {} THEN <<>>
    ELSE LET first == CHOOSE a \in S : \A b \in S : ScoredBefore(a, b)
         IN <<first>> \o SortScored(S \ {first})

score_sources_from_text(text, threshold, top_n) ==
    LET scored == {Scored(src, text[src]) : src \in {x \in DOMAIN text : Clamp(RawScore(text[x])) > 0}}
        sorted == SortScored(scored)
        matches == [i \in DOMAIN sorted |-> sorted[i].match]
        kept == IF threshold > 0
                THEN SelectSeq(matches, LAMBDA m : m.confidence >= threshold)
                ELSE matches
    IN IF top_n > 0 THEN SliceTo(kept, top_n) ELSE kept

InitScore ==
    /\ registry = ScoreSources
    /\ max_rounds = 0
    /\ pc = "score_call"
    /\ query = Q("q", <<>>, "", "", "search", FALSE)
    /\ intent = NoIntent
    /\ intent_path = ""
    /\ plan_step = 1
    /\ extra_filters = <<>>
    /\ decisions = <<>>
    /\ used_default = FALSE
    /\ all_results = <<>>
    /\ errors = <<>>
    /\ notes = <<>>
    /\ iterations = 0
    /\ round = 0
    /\ count = <<>>
    /\ aggregates = <<>>
    /\ ranked = <<>>
    /\ max_results = 20
    /\ do_refinement = TRUE
    /\ is_personal = TRUE
    /\ batches = <<>>
    /\ failures = <<>>
    /\ refine_log = <<>>
    /\ answered = {}
    /\ fuse_in = <<>>
    /\ _capabilities = <<>>
    /\ gather_plan = <<>>
    /\ arrived = <<>>
    /\ mcp_routing = <<>>
    /\ sent_args \in [text : [ScoreSources -> EvidenceKinds], threshold : ScoreThresholds,
                      top_n : 0..MaxTopN]
    /\ returned = <<>>

ScoreCall ==
    /\ pc = "score_call"
    /\ returned' = score_sources_from_text(sent_args.text, sent_args.threshold, sent_args.top_n)
    /\ pc' = "score_done"
    /\ UNCHANGED <<registry, max_rounds, query, intent, intent_path, plan_step,
                   extra_filters, decisions, used_default, all_results, errors, notes,
                   iterations, round, count, aggregates, ranked, max_results, do_refinement,
                   is_personal, batches, failures, refine_log, answered, fuse_in,
                   gather_plan, _capabilities, arrived, mcp_routing, sent_args>>

NextScore == ScoreCall

SpecScore == InitScore /\ [][NextScore]_vars

----------------------------------------------------------------------------
(* The first step of search(): the context is built from user_message and *)
(* conversation_context, an empty one returns at once, any other one gives  *)
(* the query and goes on to intent analysis.                                *)

UserMessages == {"", "  ", "q", " q ", "email"}

ConversationContexts == {"", " \n ", "ctx", "User:"}

\* str.strip on the texts above
strip(text) ==
    CASE text \in {"", "  ", " \n "} -> ""
      [] text = " q " -> "q"
      [] OTHER -> text

build_context_raw(user_message, conversation_context) ==
    IF user_message # "" /\ conversation_context # ""
    THEN user_message \o "\n\n" \o conversation_context
    ELSE IF user_message # "" THEN user_message ELSE conversation_context

\* the context of search(): both parts stripped and joined by a blank line,
\* the whole stripped again (so an empty part leaves the other part alone)
build_context(user_message, conversation_context) ==
    IF user_message # "" /\ conversation_context # ""
    THEN LET a == strip(user_message)
             b == strip(conversation_context)
         IN IF a = "" THEN b ELSE IF b = "" THEN a ELSE a \o "\n\n" \o b
    ELSE strip(IF user_message # "" THEN user_message ELSE conversation_context)

\* _default_query_from_context: the first line without its speaker prefix
_default_query_from_context(context) ==
    CASE context = "" -> ""
      [] context = "User:" -> ""
      [] context = "q\n\nctx" -> "q"
      [] context = "q\n\nUser:" -> "q"
      [] context = "email\n\nctx" -> "email"
      [] context = "email\n\nUser:" -> "email"
      [] OTHER -> context

\* the query text of search()
query_text(user_message, context) ==
    IF user_message # "" /\ strip(user_message) # ""
    THEN strip(user_message)
    ELSE _default_query_from_context(context)

\* what the extractors read from the query texts above
QueryOf(text) ==
    IF text = "email" THEN Q(text, <<M("email", 1000)>>, "", "", "search", FALSE)
    ELSE Q(text, <<>>, "", "", "search", FALSE)

InitContext ==
    /\ registry \in Registries
    /\ max_rounds \in 0..MaxRounds
    /\ pc = "context_call"
    /\ query = Q("", <<>>, "", "", "search", FALSE)
    /\ intent = NoIntent
    /\ intent_path = ""
    /\ plan_step = 1
    /\ extra_filters = <<>>
    /\ decisions = <<>>
    /\ used_default = FALSE
    /\ all_results = <<>>
    /\ errors = <<>>
    /\ notes = <<>>
    /\ iterations = 0
    /\ round = 0
    /\ count = <<>>
    /\ aggregates = <<>>
    /\ ranked = <<>>
    /\ max_results = 20
    /\ do_refinement = TRUE
    /\ is_personal = TRUE
    /\ batches = <<>>
    /\ failures = <<>>
    /\ refine_log = <<>>
    /\ answered = {}
    /\ fuse_in = <<>>
    /\ _capabilities = <<>>
    /\ gather_plan = <<>>
    /\ arrived = <<>>
    /\ mcp_routing = <<>>
    /\ sent_args \in [user_message : UserMessages, conversation_context : ConversationContexts]
    /\ returned = <<>>

\* search() on an empty context: the early return
SearchContextEmpty ==
    /\ pc = "context_call"
    /\ build_context(sent_args.user_message, sent_args.conversation_context) = ""
    /\ EarlyReturn("No context provided for search.")
    /\ UNCHANGED <<registry, max_rounds, query, intent, intent_path, plan_step,
                   extra_filters, decisions, used_default, all_results, notes, round,
                   count, aggregates, max_results, do_refinement, is_personal, batches,
                   failures, refine_log, answered, fuse_in, aux>>

\* search() on any other context: the query is built
SearchContextQuery ==
    /\ pc = "context_call"
    /\ LET context == build_context(sent_args.user_message, sent_args.conversation_context)
       IN /\ context # ""
          /\ query' = QueryOf(query_text(sent_args.user_message, context))
    /\ pc' = "intent"
    /\ UNCHANGED <<registry, max_rounds, intent, intent_path, plan_step, extra_filters,
                   decisions, used_default, all_results, errors, notes, iterations, round,
                   count, aggregates, ranked, max_results, do_refinement, is_personal,
                   batches, failures, refine_log, answered, fuse_in, aux>>

NextContext ==
    SearchContextEmpty \/ SearchContextQuery \/ IntentDeterministic \/ IntentLlm
        \/ IntentLlmRaises

SpecContext == InitContext /\ [][NextContext]_vars

----------------------------------------------------------------------------
(* CapabilityRegistry on its own: any sequence of register calls.  The     *)
(* calls made so far are kept in sent_args.                                 *)

\* a SearchCapabilities of a source, in one of two revisions
Capability(source_name, revision) ==
    [source_name |-> source_name,
     supported_methods |-> IF revision = 1 THEN <<"fulltext">> ELSE <<"structured", "vector">>]

CapabilityPool == {Capability(n, r) : n \in {"email", "cal", "web"}, r \in {1, 2}}

Holds(reg, name) == \E i \in DOMAIN reg : reg[i].source_name = name

register_setdefault(reg, capabilities) ==
    IF Holds(reg, capabilities.source_name) THEN reg ELSE Append(reg, capabilities)

\* register: self._capabilities[name] = capabilities
register(reg, capabilities) ==
    IF Holds(reg, capabilities.source_name)
    THEN [i \in DOMAIN reg |->
            IF reg[i].source_name = capabilities.source_name THEN capabilities ELSE reg[i]]
    ELSE Append(reg, capabilities)

\* get: the capability under the name, <<>> for None
get(reg, name) ==
    IF Holds(reg, name) THEN reg[CHOOSE i \in DOMAIN reg : reg[i].source_name = name]
    ELSE <<>>

InitRegistry ==
    /\ registry = {}
    /\ max_rounds = 0
    /\ pc = "registry_idle"
    /\ query = Q("", <<>>, "", "", "search", FALSE)
    /\ intent = NoIntent
    /\ intent_path = ""
    /\ plan_step = 1
    /\ extra_filters = <<>>
    /\ decisions = <<>>
    /\ used_default = FALSE
    /\ all_results = <<>>
    /\ errors = <<>>
    /\ notes = <<>>
    /\ iterations = 0
    /\ round = 0
    /\ count = <<>>
    /\ aggregates = <<>>
    /\ ranked = <<>>
    /\ max_results = 20
    /\ do_refinement = TRUE
    /\ is_personal = TRUE
    /\ batches = <<>>
    /\ failures = <<>>
    /\ refine_log = <<>>
    /\ answered = {}
    /\ fuse_in = <<>>
    /\ AuxIdle

Register ==
    /\ pc = "registry_idle"
    /\ Len(sent_args) < MaxRegisterCalls
    /\ \E capabilities \in CapabilityPool :
         /\ _capabilities' = register(_capabilities, capabilities)
         /\ sent_args' = Append(sent_args, capabilities)
    /\ UNCHANGED <<registry, max_rounds, pc, query, intent, intent_path, plan_step,
                   extra_filters, decisions, used_default, all_results, errors, notes,
                   iterations, round, count, aggregates, ranked, max_results, do_refinement,
                   is_personal, batches, failures, refine_log, answered, fuse_in,
                   gather_plan, arrived, mcp_routing, returned>>

NextRegistry == Register

SpecRegistry == InitRegistry /\ [][NextRegistry]_vars

----------------------------------------------------------------------------
(* The router called on its own: decisions_for_sources on an explicit      *)
(* candidate list, a query text and an intent.                              *)

RouterSources == {"email", "cal", "chat", "kb", "notes", "zzz"}

RouterRegistries == {{"email", "cal", "chat", "kb", "notes"}, {"cal", "kb", "notes"}}

RouterQueries == {Q("", <<>>, "", "", "search", FALSE), Q("q", <<>>, "", "", "search", FALSE)}

RouterIntents ==
    { Intent(entities, temporal, <<>>, "simple", <<>>, search_mode, aggregate_group_by) :
        entities \in {<<>>, <<Sender("Bob")>>},
        temporal \in {"", "today"},
        search_mode \in {"search", "aggregate"},
        aggregate_group_by \in {"", "from_email", "contact"} }

RouterExtraFilters == {<<>>, <<Filter("from_name", "contains", "Ann")>>}

InitRouter ==
    /\ registry \in RouterRegistries
    /\ max_rounds = 0
    /\ pc = "router_call"
    /\ query \in RouterQueries
    /\ intent \in RouterIntents
    /\ intent_path = ""
    /\ plan_step = 1
    /\ extra_filters \in RouterExtraFilters
    /\ decisions = <<>>
    /\ used_default = FALSE
    /\ all_results = <<>>
    /\ errors = <<>>
    /\ notes = <<>>
    /\ iterations = 0
    /\ round = 0
    /\ count = <<>>
    /\ aggregates = <<>>
    /\ ranked = <<>>
    /\ max_results = 20
    /\ do_refinement = TRUE
    /\ is_personal = TRUE
    /\ batches = <<>>
    /\ failures = <<>>
    /\ refine_log = <<>>
    /\ answered = {}
    /\ fuse_in = <<>>
    /\ _capabilities = <<>>
    /\ gather_plan = <<>>
    /\ arrived = <<>>
    /\ mcp_routing = <<>>
    /\ sent_args \in SeqsUpTo(RouterSources, MaxCandidates)
    /\ returned = <<>>

\* decisions_for_sources(sources, query, intent, extra_filters): the list it
\* returns, and the mode and group_by it resolved for the candidate list
DecisionsForSources ==
    /\ pc = "router_call"
    /\ decisions' = decisions_for_sources(sent_args, query, intent, extra_filters)
    /\ returned' = _extract_mode_and_group_by(intent, sent_args)
    /\ pc' = "router_done"
    /\ UNCHANGED <<registry, max_rounds, query, intent, intent_path, plan_step,
                   extra_filters, used_default, all_results, errors, notes,
                   iterations, round, count, aggregates, ranked, max_results, do_refinement,
                   is_personal, batches, failures, refine_log, answered, fuse_in,
                   gather_plan, _capabilities, arrived, mcp_routing, sent_args>>

NextRouter == DecisionsForSources

SpecRouter == InitRouter /\ [][NextRouter]_vars

----------------------------------------------------------------------------
(* The refinement policy called on its own: _should_refine on a result     *)
(* list, an intent and the prior decisions, then _refine for its reason.    *)

PolicySources == <<"email", "notes", "cal", "web", "chat", "tasks">>

\* results of every kind the triggers tell apart: confident, weak, from a
\* second source, and without any score
PolicyPool ==
    { Result("email", "1", "personal", [vector |-> 90]),
      Result("email", "2", "personal", [vector |-> 20, fulltext |-> 10]),
      Result("cal", "1", "personal", [structured |-> 90]),
      Result("web", "1", "web", <<>>) }

PolicyIntents ==
    {Intent(<<>>, t, h, c, <<>>, "search", "") :
        t \in {"", "today"}, h \in {<<>>, <<"email", "cal">>}, c \in {"simple", "multi_hop"}}

\* the decisions the router builds for the first n sources
PolicyDecisions(it, n) ==
    BuildDecisions(SubSeq(PolicySources, 1, Min2(n, Len(PolicySources))),
                   Q("q", <<>>, it.temporal, "", "search", FALSE), it, _extract_filters(it))

InitPolicy ==
    /\ registry = Range(PolicySources)
    /\ max_rounds = 1
    /\ pc = "policy_call"
    /\ query = Q("q", <<>>, "", "", "search", FALSE)
    /\ intent \in PolicyIntents
    /\ intent_path = ""
    /\ plan_step = 1
    /\ extra_filters = <<>>
    /\ \E n \in 1..MaxPrior : decisions = PolicyDecisions(intent, n)
    /\ used_default = FALSE
    /\ all_results \in SeqsUpTo(PolicyPool, MaxPolicyResults)
    /\ errors = <<>>
    /\ notes = <<>>
    /\ iterations = 0
    /\ round = 0
    /\ count = <<>>
    /\ aggregates = <<>>
    /\ ranked = <<>>
    /\ max_results = 20
    /\ do_refinement = TRUE
    /\ is_personal = TRUE
    /\ batches = <<>>
    /\ failures = <<>>
    /\ refine_log = <<>>
    /\ answered = {}
    /\ fuse_in = <<>>
    /\ AuxIdle

ShouldRefineCall ==
    /\ pc = "policy_call"
    /\ refine_log' = <<LogEntry(_should_refine(all_results, intent, decisions), FALSE)>>
    /\ pc' = "policy_reason"
    /\ UNCHANGED <<registry, max_rounds, query, intent, intent_path, plan_step,
                   extra_filters, decisions, used_default, all_results, errors, notes,
                   iterations, round, count, aggregates, ranked, max_results, do_refinement,
                   is_personal, batches, failures, answered, fuse_in, aux>>

RefineCall ==
    /\ pc = "policy_reason"
    /\ refine_log[1].reason # ""
    /\ batches' = <<_refine(refine_log[1].reason, all_results, decisions)>>
    /\ pc' = "policy_done"
    /\ UNCHANGED <<registry, max_rounds, query, intent, intent_path, plan_step,
                   extra_filters, decisions, used_default, all_results, errors, notes,
                   iterations, round, count, aggregates, ranked, max_results, do_refinement,
                   is_personal, failures, refine_log, answered, fuse_in, aux>>

NextPolicy == ShouldRefineCall \/ RefineCall

SpecPolicy == InitPolicy /\ [][NextPolicy]_vars

----------------------------------------------------------------------------
(* MCPSearchDispatcher on its own: registrations, then search calls whose  *)
(* outgoing arguments and parsed answers are recorded.  A Python dict is a  *)
(* function on its keys; count -1 is None.                                   *)

Get(dict, key, default) == IF key \in DOMAIN dict THEN dict[key] ELSE default

DispatchConnections ==
    {[connection_key |-> "browser", source_names |-> names] :
        names \in (SUBSET {"browser_history", "browser_bookmarks"}) \ {{}}}
    \cup {[connection_key |-> "email", source_names |-> {"email"}]}

\* sources a caller may search; "chat" is never registered
DispatchSources == {"browser_history", "browser_bookmarks", "email", "chat"}

\* request_routing_args as capability discovery hands them to register_mcp
DiscoveredRoutingArgs(names) ==
    [s \in names \cap {"browser_history", "browser_bookmarks"} |->
        [search_history |-> s = "browser_history",
         search_bookmarks |-> s = "browser_bookmarks"]]

\* the arguments search puts together for unified_search
search_args(source, q, methods, filters, top_k, mode, sort_field, sort_order, group_by, aggregate_top_n) ==
    LET keys == {"query", "top_k", "include_scores", "mode", "aggregate_top_n"}
                \cup (IF methods # <<>> THEN {"methods"} ELSE {})
                \cup (IF filters # <<>> THEN {"filters"} ELSE {})
                \cup (IF sort_field # "" THEN {"sort_field", "sort_order"} ELSE {})
                \cup (IF group_by # "" /\ mode = "aggregate" THEN {"group_by"} ELSE {})
                \cup (IF source \in {"browser_history", "browser_bookmarks"}
                      THEN {"search_history", "search_bookmarks"} ELSE {})
    IN [k \in keys |->
          CASE k = "query" -> q
            [] k = "top_k" -> top_k
            [] k = "include_scores" -> TRUE
            [] k = "mode" -> mode
            [] k = "aggregate_top_n" -> aggregate_top_n
            [] k = "methods" -> methods
            [] k = "filters" -> filters
            [] k = "sort_field" -> sort_field
            [] k = "sort_order" -> sort_order
            [] k = "group_by" -> group_by
            [] k = "search_history" -> source = "browser_history"
            [] k = "search_bookmarks" -> source = "browser_bookmarks"]

\* json.loads on the output strings a server may send
json_loads(text) ==
    CASE text = "{\"results\": [{\"id\": \"7\"}], \"count\": 1}" ->
              [kind |-> "dict", value |-> [results |-> <<[id |-> "7"]>>, count |-> 1]]
      [] text = "[1]" -> [kind |-> "list", value |-> <<1>>]
      [] OTHER -> [kind |-> "JSONDecodeError", value |-> <<>>]

\* what the call function does: it raises, or it returns one of these dicts
McpAnswers ==
    <<[raises |-> TRUE, result |-> <<>>],
      [raises |-> FALSE,
       result |-> [success |-> TRUE, mode |-> "search",
                   results |-> <<[id |-> "1", source |-> "email", scores |-> [vector |-> 80]],
                                 [id |-> "2", source_class |-> "nowhere"]>>]],
      [raises |-> FALSE, result |-> [success |-> TRUE, mode |-> "count", count |-> 2]],
      [raises |-> FALSE,
       result |-> [aggregates |-> <<AggregateGroup("a@x", 3, "Alice")>>]],
      [raises |-> FALSE, result |-> [success |-> FALSE, error |-> "boom"]],
      [raises |-> FALSE,
       result |-> [success |-> FALSE, error |-> "boom", results |-> <<[id |-> "1"]>>]],
      [raises |-> FALSE, result |-> [success |-> FALSE, error |-> "boom", count |-> 3]],
      [raises |-> FALSE, result |-> [success |-> FALSE, output |-> "not json"]],
      [raises |-> FALSE, result |-> [output |-> "not json"]],
      [raises |-> FALSE, result |-> [output |-> "[1]"]],
      [raises |-> FALSE,
       result |-> [output |-> "{\"results\": [{\"id\": \"7\"}], \"count\": 1}"]]>>

ParsedResponse(results, cnt, aggs, mode, source) ==
    [results |-> results, count |-> cnt, aggregates |-> aggs, mode |-> mode,
     source |-> source, raised |-> FALSE]

EmptyResponse(source, mode) == ParsedResponse(<<>>, -1, <<>>, mode, source)

\* an exception leaves search; nothing is returned
AttributeError(source, mode) ==
    [results |-> <<>>, count |-> -1, aggregates |-> <<>>, mode |-> mode,
     source |-> source, raised |-> TRUE]

ValidSourceClass(item) == Get(item, "source_class", "personal") \in {"personal", "web"}

ParseItem(item, source) ==
    [id |-> Get(item, "id", ""), source |-> Get(item, "source", source),
     source_class |-> Get(item, "source_class", "personal"),
     scores |-> Get(item, "scores", <<>>)]

ParseData(data, source, mode) ==
    LET raw == SelectSeq(Get(data, "results", <<>>), ValidSourceClass)
    IN ParsedResponse([i \in DOMAIN raw |-> ParseItem(raw[i], source)],
                      Get(data, "count", -1), Get(data, "aggregates", <<>>),
                      Get(data, "mode", mode), source)

_parse_response(result, source, mode) ==
    IF ~ Get(result, "success", TRUE) /\ "results" \notin DOMAIN result
          /\ "count" \notin DOMAIN result
    THEN EmptyResponse(source, mode)
    ELSE IF "output" \in DOMAIN result
    THEN LET loaded == json_loads(result["output"])
         IN CASE loaded.kind = "JSONDecodeError" -> EmptyResponse(source, mode)
              [] loaded.kind = "list" -> AttributeError(source, mode)
              [] OTHER -> ParseData(loaded.value, source, mode)
    ELSE ParseData(result, source, mode)

InitDispatch ==
    /\ registry = {}
    /\ max_rounds = 0
    /\ pc = "dispatch_idle"
    /\ query = Q("q", <<>>, "", "", "search", FALSE)
    /\ intent = NoIntent
    /\ intent_path = ""
    /\ plan_step = 1
    /\ extra_filters = <<>>
    /\ decisions = <<>>
    /\ used_default = FALSE
    /\ all_results = <<>>
    /\ errors = <<>>
    /\ notes = <<>>
    /\ iterations = 0
    /\ round = 0
    /\ count = <<>>
    /\ aggregates = <<>>
    /\ ranked = <<>>
    /\ max_results = 20
    /\ do_refinement = TRUE
    /\ is_personal = TRUE
    /\ batches = <<>>
    /\ failures = <<>>
    /\ refine_log = <<>>
    /\ answered = {}
    /\ fuse_in = <<>>
    /\ AuxIdle

DispatchFrame ==
    UNCHANGED <<registry, max_rounds, query, intent, intent_path, plan_step, extra_filters,
                decisions, used_default, all_results, errors, notes, iterations, round,
                count, aggregates, ranked, max_results, do_refinement, is_personal,
                batches, failures, refine_log, answered, fuse_in, gather_plan, _capabilities, arrived>>

\* register_mcp(connection_key, source_names, mcp_call)
RegisterMcp ==
    /\ pc = "dispatch_idle"
    /\ \E c \in DispatchConnections :
         mcp_routing' = [s \in DOMAIN mcp_routing \cup c.source_names |->
                           IF s \in c.source_names THEN c.connection_key
                           ELSE mcp_routing[s]]
    /\ UNCHANGED <<pc, sent_args, returned>>
    /\ DispatchFrame

\* register_mcp(connection_key, source_names, mcp_call, request_routing_args=...):
\* the method has no such parameter, the call raises TypeError
RegisterMcpRoutingArgs ==
    /\ pc = "dispatch_idle"
    /\ \E c \in DispatchConnections :
         DOMAIN DiscoveredRoutingArgs(c.source_names) \subseteq c.source_names
    /\ pc' = "register_raised"
    /\ UNCHANGED <<mcp_routing, sent_args, returned>>
    /\ DispatchFrame

\* search on a source without a connection: nothing is sent
SearchUnregistered ==
    /\ pc = "dispatch_idle"
    /\ \E source \in DispatchSources \ DOMAIN mcp_routing, mode \in {"search", "count"} :
         /\ sent_args' = <<>>
         /\ returned' = [source |-> source, mode |-> mode, called |-> FALSE,
                         answer |-> McpAnswers[1], response |-> EmptyResponse(source, mode)]
    /\ UNCHANGED <<pc, mcp_routing>>
    /\ DispatchFrame

\* search on a registered source: the call and the parse of its answer
SearchRegistered ==
    /\ pc = "dispatch_idle"
    /\ \E source \in DOMAIN mcp_routing,
          methods \in {<<>>, <<"vector">>},
          filters \in {<<>>, <<Filter("from_name", "contains", "Alice")>>},
          mode \in {"search", "count", "aggregate"},
          sort_field \in {"", "date"},
          group_by \in {"", "from_name"},
          a \in DOMAIN McpAnswers :
         /\ sent_args' = search_args(source, "q", methods, filters, 10, mode, sort_field,
                                     "desc", group_by, 10)
         /\ returned' = [source |-> source, mode |-> mode, called |-> TRUE,
                         answer |-> McpAnswers[a],
                         response |-> IF McpAnswers[a].raises
                                      THEN EmptyResponse(source, mode)
                                      ELSE _parse_response(McpAnswers[a].result, source, mode)]
    /\ UNCHANGED <<pc, mcp_routing>>
    /\ DispatchFrame

NextDispatch == RegisterMcp \/ RegisterMcpRoutingArgs \/ SearchUnregistered \/ SearchRegistered

SpecDispatch == InitDispatch /\ [][NextDispatch]_vars

----------------------------------------------------------------------------
(* The fan-out of _execute_routing run on its own: the tasks of a batch     *)
(* complete in any order, asyncio.gather hands their answers back, and the  *)
(* batches of a plan are folded as _run_multihop folds its steps.           *)

GatherSources == <<"chat", "email", "cal", "web">>

GatherModes == {"search", "count", "aggregate"}

\* the decisions the router builds for the first n sources in a mode
GatherDecisions(mode, n) ==
    BuildDecisions(SubSeq(GatherSources, 1, Min2(n, Len(GatherSources))),
                   Q("q", <<>>, "", "", mode, FALSE),
                   Intent(<<>>, "", <<>>, "multi_hop", <<>>, mode, ""), <<>>)

\* a decision list as one batch, or cut into two consecutive batches
Splits(decs) ==
    {<<decs>>} \cup {<<SubSeq(decs, 1, j), SubSeq(decs, j + 1, Len(decs))>> : j \in 1..(Len(decs) - 1)}

GatherPlans == UNION {Splits(GatherDecisions(m, n)) : m \in GatherModes, n \in 1..MaxBatch}

InitGather ==
    /\ registry = Range(GatherSources)
    /\ max_rounds = 0
    /\ pc = "gather"
    /\ query = Q("q", <<>>, "", "", "search", FALSE)
    /\ intent = NoIntent
    /\ intent_path = ""
    /\ plan_step = 1
    /\ extra_filters = <<>>
    /\ decisions = <<>>
    /\ used_default = FALSE
    /\ all_results = <<>>
    /\ errors = <<>>
    /\ notes = <<>>
    /\ iterations = 0
    /\ round = 0
    /\ count = <<>>
    /\ aggregates = <<>>
    /\ ranked = <<>>
    /\ max_results = 20
    /\ do_refinement = FALSE
    /\ is_personal = TRUE
    /\ batches = <<>>
    /\ failures = <<>>
    /\ refine_log = <<>>
    /\ answered = {}
    /\ fuse_in = <<>>
    /\ _capabilities = <<>>
    /\ gather_plan \in GatherPlans
    /\ arrived = <<>>
    /\ mcp_routing = <<>>
    /\ sent_args = <<>>
    /\ returned = <<>>

\* the tasks of step k that have completed
Completed(k) == {arrived[a].task : a \in {b \in DOMAIN arrived : arrived[b].step = k}}

Arrival(k, i, o) == [step |-> k, task |-> i, answer |-> o]

AnswerOf(k, i) ==
    arrived[CHOOSE a \in DOMAIN arrived : arrived[a].step = k /\ arrived[a].task = i].answer

gather_as_completed(k, batch) ==
    LET mine == SelectSeq(arrived, LAMBDA a : a.step = k)
    IN [j \in DOMAIN mine |-> mine[j].answer]

\* asyncio.gather(*tasks): the answers in the order of the tasks
gather(k, batch) == [i \in DOMAIN batch |-> AnswerOf(k, i)]

\* one pending backend call of the current batch completes
TaskCompletes ==
    /\ pc = "gather"
    /\ \E i \in DOMAIN gather_plan[plan_step] \ Completed(plan_step) :
         \E outs \in BatchOutcomes(<<gather_plan[plan_step][i]>>) :
            arrived' = Append(arrived, Arrival(plan_step, i, outs[1]))
    /\ UNCHANGED <<registry, max_rounds, pc, query, intent, intent_path, plan_step,
                   extra_filters, decisions, used_default, all_results, errors, notes,
                   iterations, round, count, aggregates, ranked, max_results, do_refinement,
                   is_personal, batches, failures, refine_log, answered, fuse_in,
                   gather_plan, _capabilities, mcp_routing, sent_args, returned>>

\* every task of the batch is done: gather returns, _execute_routing folds
\* the parts and the step is merged into the run
GatherReturns ==
    /\ pc = "gather"
    /\ LET batch == gather_plan[plan_step]
       IN /\ Completed(plan_step) = DOMAIN batch
          /\ LET ex == _execute_routing(batch, gather(plan_step, batch))
             IN /\ all_results' = all_results \o ex.results
                /\ errors' = errors \o ex.errors
                /\ count' = MergeFirst(count, ex.count)
                /\ aggregates' = MergeFirst(aggregates, ex.aggregates)
          /\ decisions' = decisions \o batch
          /\ batches' = Append(batches, batch)
    /\ plan_step' = plan_step + 1
    /\ pc' = (IF plan_step = Len(gather_plan) THEN "gather_done" ELSE "gather")
    /\ UNCHANGED <<registry, max_rounds, query, intent, intent_path, extra_filters,
                   used_default, notes, iterations, round, ranked, max_results,
                   do_refinement, is_personal, failures, refine_log, answered, fuse_in,
                   gather_plan, _capabilities, arrived, mcp_routing, sent_args, returned>>

NextGather == TaskCompletes \/ GatherReturns

SpecGather == InitGather /\ [][NextGather]_vars

----------------------------------------------------------------------------
(* search() run twice on the same decisions with the same backend answers: *)
(* each run fans out, folds, fuses and builds its response; the lists       *)
(* sources_queried and methods_used are made by list() of a set of strings, *)
(* whose order follows the interpreter's string hashing.                    *)

HashSeeds == {1, 2}

Reverse(seq) == [i \in DOMAIN seq |-> seq[Len(seq) + 1 - i]]

\* list(a_set_of_strings) under a hash seed
list_of_set(S, seed) == IF seed = 1 THEN SortedSeq(S) ELSE Reverse(SortedSeq(S))

RepeatPlans == {<<GatherDecisions("search", n)>> : n \in 1..MaxRepeat}

InitRepeat ==
    /\ registry = Range(GatherSources)
    /\ max_rounds = 0
    /\ pc = "gather"
    /\ query = Q("q", <<>>, "", "", "search", FALSE)
    /\ intent = NoIntent
    /\ intent_path = "deterministic"
    /\ plan_step = 1
    /\ extra_filters = <<>>
    /\ decisions = <<>>
    /\ used_default = FALSE
    /\ all_results = <<>>
    /\ errors = <<>>
    /\ notes = <<>>
    /\ iterations = 0
    /\ round = 0
    /\ count = <<>>
    /\ aggregates = <<>>
    /\ ranked = <<>>
    /\ max_results = 20
    /\ do_refinement = FALSE
    /\ is_personal = TRUE
    /\ batches = <<>>
    /\ failures = <<>>
    /\ refine_log = <<>>
    /\ answered = {}
    /\ fuse_in = <<>>
    /\ _capabilities = <<>>
    /\ gather_plan \in RepeatPlans
    /\ arrived = <<>>
    /\ mcp_routing = <<>>
    /\ sent_args = <<>>
    /\ returned = <<>>

\* the response of search(): results, errors and meta without timing_ms
Response(results, seed) ==
    [results |-> results,
     errors |-> errors,
     sources_queried |-> list_of_set({decisions[i].source : i \in DOMAIN decisions}, seed),
     methods_used |-> list_of_set(UNION {Range(decisions[i].methods) : i \in DOMAIN decisions},
                                  seed),
     total_results |-> Len(results),
     count |-> count,
     aggregates |-> aggregates]

\* fusion and the response of one run
RunResponds ==
    /\ pc = "gather_done"
    /\ ranked' = fuse_and_rank(all_results, is_personal, max_results)
    /\ \E seed \in HashSeeds : returned' = Append(returned, Response(ranked', seed))
    /\ pc' = "responded"
    /\ UNCHANGED <<registry, max_rounds, query, intent, intent_path, plan_step,
                   extra_filters, decisions, used_default, all_results, errors, notes,
                   iterations, round, count, aggregates, max_results, do_refinement,
                   is_personal, batches, failures, refine_log, answered, fuse_in,
                   gather_plan, _capabilities, arrived, mcp_routing, sent_args>>

\* search() is called again with the same inputs; the backends will answer
\* each request as they did
SearchAgain ==
    /\ pc = "responded"
    /\ Len(returned) = 1
    /\ answered' = {<<gather_plan[arrived[a].step][arrived[a].task], arrived[a].answer>> :
                      a \in DOMAIN arrived}
    /\ arrived' = <<>>
    /\ plan_step' = 1
    /\ decisions' = <<>>
    /\ all_results' = <<>>
    /\ errors' = <<>>
    /\ count' = <<>>
    /\ aggregates' = <<>>
    /\ ranked' = <<>>
    /\ batches' = <<>>
    /\ pc' = "gather"
    /\ UNCHANGED <<registry, max_rounds, query, intent, intent_path, extra_filters,
                   used_default, notes, iterations, round, max_results, do_refinement,
                   is_personal, failures, refine_log, fuse_in, gather_plan, _capabilities, mcp_routing,
                   sent_args, returned>>

NextRepeat == TaskCompletes \/ GatherReturns \/ RunResponds \/ SearchAgain

SpecRepeat == InitRepeat /\ [][NextRepeat]_vars

----------------------------------------------------------------------------
(* _run_multihop run on its own, cut at its awaits: the loop head, the     *)
(* gather of a step's backend calls, and extract_entity between two steps. *)
(* gather_plan[k] holds the decisions dispatched for step k of the plan,   *)
(* <<>> for a step that was skipped.                                        *)

HopRegistry == {"email", "cal", "chat"}

HopPlans ==
    { <<Step(<<"cal", "email">>, FALSE), Step(<<"email", "chat">>, TRUE)>>,
      <<Step(<<"cal">>, FALSE), Step(<<"cal">>, TRUE), Step(<<"email">>, FALSE)>>,
      <<Step(<<"email">>, FALSE), Step(<<"cal">>, TRUE), Step(<<"email", "chat">>, FALSE)>>,
      <<Step(<<"email">>, FALSE), Step(<<"chat", "cal">>, FALSE)>> }

HopIntents ==
    {Intent(<<>>, "", <<>>, "multi_hop", plan, search_mode, "") :
        plan \in HopPlans, search_mode \in {"search", "aggregate"}}

InitMultihop ==
    /\ registry = HopRegistry
    /\ max_rounds = 0
    /\ pc = "hop"
    /\ query = Q("q", <<>>, "", "", "search", FALSE)
    /\ intent \in HopIntents
    /\ intent_path = "llm"
    /\ plan_step = 1
    /\ extra_filters = <<>>
    /\ decisions = <<>>
    /\ used_default = FALSE
    /\ all_results = <<>>
    /\ errors = <<>>
    /\ notes = <<>>
    /\ iterations = 0
    /\ round = 0
    /\ count = <<>>
    /\ aggregates = <<>>
    /\ ranked = <<>>
    /\ max_results = 20
    /\ do_refinement = FALSE
    /\ is_personal = TRUE
    /\ batches = <<>>
    /\ failures = <<>>
    /\ refine_log = <<>>
    /\ answered = {}
    /\ fuse_in = <<>>
    /\ AuxIdle

\* the position of the coroutine from which the loop may take a step: the
\* head of `for step_idx, step in enumerate(plan)`, which it reaches only
\* once the awaits of the step before have returned
loop_head_unawaited == pc \in {"hop", "gather", "extract"}

loop_head == pc = "hop"

HopFrame ==
    UNCHANGED <<registry, max_rounds, query, intent, intent_path, used_default, notes,
                iterations, round, ranked, max_results, do_refinement, is_personal,
                failures, refine_log, answered, fuse_in, _capabilities, mcp_routing,
                sent_args, returned>>

\* the step's decisions are built and _execute_routing hands one task per
\* decision to asyncio.gather
StepStarts ==
    /\ loop_head
    /\ Len(gather_plan) < Len(intent.retrieval_plan)
    /\ LET decs == StepDecisions(intent, query, Len(gather_plan) + 1, extra_filters)
       IN /\ decs # <<>>
          /\ gather_plan' = Append(gather_plan, decs)
    /\ pc' = "gather"
    /\ UNCHANGED <<plan_step, extra_filters, decisions, all_results, errors, count,
                   aggregates, batches, arrived>>
    /\ HopFrame

\* `if not decisions: continue`
StepSkipped ==
    /\ loop_head
    /\ plan_step <= Len(intent.retrieval_plan)
    /\ StepDecisions(intent, query, plan_step, extra_filters) = <<>>
    /\ gather_plan' = Append(gather_plan, <<>>)
    /\ plan_step' = plan_step + 1
    /\ pc' = (IF plan_step = Len(intent.retrieval_plan) THEN "hops_done" ELSE "hop")
    /\ UNCHANGED <<extra_filters, decisions, all_results, errors, count, aggregates,
                   batches, arrived>>
    /\ HopFrame

\* gather returns: the step is merged into the run, and the filters for the
\* next step are prepared unless extract_entity has to be awaited for them
StepReturns ==
    /\ pc = "gather"
    /\ LET batch == gather_plan[plan_step]
           last == plan_step = Len(intent.retrieval_plan)
       IN /\ Completed(plan_step) = DOMAIN batch
          /\ LET ex == _execute_routing(batch, gather(plan_step, batch))
             IN /\ all_results' = all_results \o ex.results
                /\ errors' = errors \o ex.errors
                /\ count' = MergeFirst(count, ex.count)
                /\ aggregates' = MergeFirst(aggregates, ex.aggregates)
                /\ IF NeedsEntity(intent, plan_step, ex)
                   THEN /\ pc' = "extract"
                        /\ UNCHANGED <<plan_step, extra_filters>>
                   ELSE /\ extra_filters' = NextExtraFilters(intent, plan_step, ex, <<>>)
                        /\ plan_step' = plan_step + 1
                        /\ pc' = (IF last THEN "hops_done" ELSE "hop")
          /\ decisions' = decisions \o batch
          /\ batches' = Append(batches, batch)
    /\ UNCHANGED <<gather_plan, arrived>>
    /\ HopFrame

\* `entity = await extract_entity(step_results, llm_generate=...)`
ExtractEntity ==
    /\ pc = "extract"
    /\ LET batch == gather_plan[plan_step]
           ex == _execute_routing(batch, gather(plan_step, batch))
       IN \E llm_answer \in EntityAnswers :
            extra_filters' = NextExtraFilters(intent, plan_step, ex,
                                              extract_entity(ex.results, FALSE, llm_answer))
    /\ plan_step' = plan_step + 1
    /\ pc' = "hop"
    /\ UNCHANGED <<decisions, all_results, errors, count, aggregates, batches,
                   gather_plan, arrived>>
    /\ HopFrame

NextMultihop == StepStarts \/ StepSkipped \/ TaskCompletes \/ StepReturns \/ ExtractEntity

SpecMultihop == InitMultihop /\ [][NextMultihop]_vars

----------------------------------------------------------------------------
(* Properties *)

AllDispatched == Flatten(batches)

Responded == pc = "done"

\* C1: within one search each refinement reason produces and executes
\* refinement decisions at most once; a second detection of the same reason
\* executes no further backend batch.
C1_EachReasonFiresOnce ==
    \A i, j \in DOMAIN refine_log :
        (i # j /\ refine_log[i].executed /\ refine_log[j].executed)
            => refine_log[i].reason # refine_log[j].reason

ErrorMessages == {"boom", "MCP call failed: bad payload", "MCP call failed: boom",
                  "search failed"}

IsErrorOf(e, source) == \E m \in ErrorMessages : e = source \o ": " \o m

\* C2: the search returns normally and its errors hold one string
\* "{source}: {message}" for every executed decision whose backend failed.
C2_FailureBecomesError ==
    Responded =>
        \A s \in AllSources :
            Cardinality({j \in DOMAIN errors : IsErrorOf(errors[j], s)})
                = Cardinality({i \in DOMAIN failures : failures[i] = s})

\* C3: search never raises, whatever the language model and the backends do.
C3_SearchNeverRaises == pc # "raised"

\* C4: when any executed routing decision (single step or any multi-hop
\* step) carries mode count or aggregate, no refinement round is evaluated.
C4_CountAggregateSkipsRefinement ==
    (\E i \in DOMAIN decisions : decisions[i].mode \in {"count", "aggregate"})
        => refine_log = <<>>

\* C5: every response has iterations >= 1 and iterations equal to the number
\* of routing batches that were executed.
C5_IterationsCountBatches ==
    Responded => (iterations >= 1 /\ iterations = Len(batches))

\* C6: every filter of every routing decision (router output, injected entity
\* filters, refinement decisions) names a filter its source's capability declares.
C6_FiltersDeclared ==
    \A i \in DOMAIN AllDispatched :
        LET d == AllDispatched[i]
        IN /\ d.source \in registry
           /\ \A k \in DOMAIN d.filters :
                d.filters[k].field \in Caps(d.source).supported_filters

\* a decision kept some filters of the intent while another one was removed
\* because its source does not declare it
C6_Witness ==
    \E i \in DOMAIN AllDispatched :
        LET d == AllDispatched[i]
            wanted == _extract_filters(intent)
        IN /\ d.filters # <<>>
           /\ \E k \in DOMAIN wanted : wanted[k].field \notin Caps(d.source).supported_filters

\* C7: a routing decision has a group_by only if its source's capability
\* declares that field.
C7_GroupByDeclared ==
    \A i \in DOMAIN AllDispatched :
        AllDispatched[i].group_by # ""
            => supports_group_by(AllDispatched[i].source, AllDispatched[i].group_by)

\* an aggregate batch where one source got the group_by and another, which
\* does not declare the field, got none
C7_Witness ==
    \E b \in DOMAIN batches :
        \E i, j \in DOMAIN batches[b] :
            /\ batches[b][i].mode = "aggregate"
            /\ batches[b][i].group_by # ""
            /\ batches[b][j].mode = "aggregate"
            /\ batches[b][j].group_by = ""

PairOf(r) == <<r.source, r.id>>

InputPairs == {PairOf(fuse_in[i]) : i \in DOMAIN fuse_in}

Duplicates(r) == {i \in DOMAIN fuse_in : PairOf(fuse_in[i]) = PairOf(r)}

\* C8: the ranked list of fuse_and_rank holds no two results with the same
\* (source, id); inputs are merged only when their (source, id) pairs are
\* equal; a merged result has per method the maximum score of its duplicates
\* and the union of their methods_used.
C8_DedupByPair ==
    pc = "fuse_done" =>
        /\ \A i, j \in DOMAIN ranked : i # j => PairOf(ranked[i]) # PairOf(ranked[j])
        /\ Len(ranked) = Min2(max_results, Cardinality(InputPairs))
        /\ \A i \in DOMAIN ranked :
             LET r == ranked[i]
                 dups == Duplicates(r)
             IN /\ r.methods_used = UNION {fuse_in[k].methods_used : k \in dups}
                /\ DOMAIN r.scores = UNION {DOMAIN fuse_in[k].scores : k \in dups}
                /\ \A m \in DOMAIN r.scores :
                     /\ \E k \in dups : m \in DOMAIN fuse_in[k].scores
                                        /\ fuse_in[k].scores[m] = r.scores[m]
                     /\ \A k \in dups : m \in DOMAIN fuse_in[k].scores
                                        => fuse_in[k].scores[m] <= r.scores[m]

PairLessEq(a, b) ==
    \/ StrRank(a.source) < StrRank(b.source)
    \/ (a.source = b.source /\ StrRank(a.id) <= StrRank(b.id))

\* C9: the ranked list is sorted by fused score descending and results with
\* equal fused score are ordered by source name and then id, whatever the
\* order of the input.
C9_TotalOrder ==
    pc = "fuse_done" =>
        \A i, j \in DOMAIN ranked :
            i < j =>
                LET si == compute_fused_score(ranked[i], is_personal)
                    sj == compute_fused_score(ranked[j], is_personal)
                IN \/ ScoreGreater(si, sj)
                   \/ (ScoreEqual(si, sj) /\ PairLessEq(ranked[i], ranked[j]))

\* C10: search returns at most min(50, max(1, max_results)) results, and
\* exactly one when max_results clamps to 1 and any result is available.
C10_MaxResultsClamped ==
    (Responded /\ iterations >= 1) =>
        LET cap == Min2(50, Max2(1, max_results))
        IN /\ Len(ranked) <= cap
           /\ (cap = 1 /\ all_results # <<>>) => Len(ranked) = 1

\* the <<step, task>> cells of a fan-out run, in step order and decision order
PlanCells ==
    Flatten([k \in DOMAIN gather_plan |-> [i \in DOMAIN gather_plan[k] |-> <<k, i>>]])

\* what the backend call of a cell gave: [results, errors, dres]
PartOf(c) == _execute_one(gather_plan[c[1]][c[2]], AnswerOf(c[1], c[2]))

\* position of a cell's completion among the completions
ArrivalIndex(c) ==
    CHOOSE a \in DOMAIN arrived : arrived[a].step = c[1] /\ arrived[a].task = c[2]

\* C11: the results and the errors a fan-out returns are the concatenation,
\* in the order of the routing decisions, of what each backend call gave,
\* whatever the order in which the calls completed.
C11_DecisionOrder ==
    pc = "gather_done" =>
        /\ all_results = Flatten([n \in DOMAIN PlanCells |-> PartOf(PlanCells[n]).results])
        /\ errors = Flatten([n \in DOMAIN PlanCells |-> PartOf(PlanCells[n]).errors])

\* two calls of one batch completed in the reverse of their decision order,
\* the first with results and the second with results or an error
C11_Witness ==
    /\ pc = "gather_done"
    /\ \E m, n \in DOMAIN PlanCells :
         /\ m < n
         /\ PlanCells[m][1] = PlanCells[n][1]
         /\ ArrivalIndex(PlanCells[n]) < ArrivalIndex(PlanCells[m])
         /\ PartOf(PlanCells[m]).results # <<>>
         /\ (PartOf(PlanCells[n]).results # <<>> \/ PartOf(PlanCells[n]).errors # <<>>)

Counting == SelectSeq(PlanCells, LAMBDA c : PartOf(c).dres.count # -1)

Grouping == SelectSeq(PlanCells, LAMBDA c : PartOf(c).dres.aggregates # <<>>)

YieldsAlice(results) ==
    \E i \in DOMAIN results :
        /\ results[i].source \in registry
        /\ \E k \in DOMAIN Caps(results[i].source).entity_extraction_rules :
             LET rule == Caps(results[i].source).entity_extraction_rules[k]
             IN /\ rule.target_field = "from_name"
                /\ _extract_value_from_rule(results[i].metadata, rule) = "Alice"

\* C13: in a multi-hop run whose step 2 takes its entity from step 1, when a
\* result of step 1 yields from_name "Alice" through its source's declared
\* rules, step 2 issues an email decision filtered by from_name contains
\* "Alice", whatever the language model answers.
C13_EntityFromMetadata ==
    (/\ pc = "multihop"
     /\ plan_step = 2
     /\ Len(batches) = 1
     /\ intent.retrieval_plan[2].entity_from_previous
     /\ InSeq("email", intent.retrieval_plan[2].sources)
     /\ aggregates = <<>>
     /\ YieldsAlice(all_results))
    => \E i \in DOMAIN StepDecisions(intent, query, 2, extra_filters) :
         LET d == StepDecisions(intent, query, 2, extra_filters)[i]
         IN /\ d.source = "email"
            /\ InSeq(Filter("from_name", "contains", "Alice"), d.filters)

\* search has chosen its path; _run_multihop alone advances plan_step
Routed == pc \in {"multihop", "refine", "fuse", "done"} /\ intent_path # ""

\* C14: search takes the multi-hop path if and only if the intent declares a
\* retrieval_plan of at least 2 steps, each with a non-empty list of
\* registered sources; otherwise it takes the single-step path.
C14_MultihopIffValidPlan ==
    Routed => ((plan_step > 1) <=> _validate_retrieval_plan(intent.retrieval_plan))

BroadNote == "No explicit source hint detected; ran capped broad search."

\* the single-step path has executed its batch
SingleStepRan == pc \in {"refine", "fuse", "done"} /\ plan_step = 1 /\ batches # <<>>

\* C15: when the router falls back to default sources the initial batch has
\* at most 3 decisions, no web source is chosen while a registered personal
\* source is left out, and the notes hold the broad-search note; otherwise
\* the routed decisions run uncapped and the note is absent.
C15_BroadFallbackCapped ==
    SingleStepRan =>
        IF used_default
        THEN /\ Len(batches[1]) <= 3
             /\ \A i \in DOMAIN batches[1] :
                  Caps(batches[1][i].source).source_class = "web"
                      => \A j \in DOMAIN personal_sources :
                            \E k \in DOMAIN batches[1] :
                                batches[1][k].source = personal_sources[j]
             /\ InSeq(BroadNote, notes)
        ELSE /\ batches[1] = route(intent, query)[1]
             /\ ~ InSeq(BroadNote, notes)

\* a default routing over more than 3 sources ran as a batch of 3
C15_Witness ==
    /\ SingleStepRan
    /\ used_default
    /\ Len(route(intent, query)[1]) > 3
    /\ Len(batches[1]) = 3
    /\ InSeq(BroadNote, notes)

\* the number of refinement batches executed so far
RefinementBatches == Cardinality({i \in DOMAIN refine_log : refine_log[i].executed})

\* C16: each refinement round dispatches at most 4 decisions and a search
\* dispatches at most |registered sources| + 4 * max_refinement_rounds
\* routing decisions in all.
C16_FanOutBounded ==
    /\ \A b \in DOMAIN batches :
          b > Len(batches) - RefinementBatches => Len(batches[b]) <= 4
    /\ Len(AllDispatched) <= Cardinality(registry) + 4 * max_rounds

\* the trigger table: the reason due for a result list, "" for none
MeanBelow(results, percent) ==
    SeqSum([i \in DOMAIN results |->
              IF DOMAIN results[i].scores = {} THEN 0
              ELSE CHOOSE v \in Range(results[i].scores) :
                     \A w \in Range(results[i].scores) : w <= v])
        < percent * Len(results)

TriggerTable(results, it, decs) ==
    LET no_filters == \A i \in DOMAIN decs : decs[i].filters = <<>>
        one_source == \A i, j \in DOMAIN results : results[i].source = results[j].source
    IN CASE results = <<>> ->
              (IF no_filters \/ it.complexity = "multi_hop" THEN "no_results" ELSE "")
         [] results # <<>> /\ Len(results) < 3 -> "low_source_coverage"
         [] Len(results) >= 3 /\ MeanBelow(results, 70) -> "low_confidence"
         [] Len(results) >= 3 /\ ~ MeanBelow(results, 70) /\ one_source
              /\ Len(it.source_hints) >= 2 /\ it.complexity # "multi_hop" -> "single_source"
         [] OTHER -> ""

C18_NoResultsRetry ==
    (pc = "policy_done" /\ refine_log[1].reason = "no_results")
        => /\ Len(batches[1]) = Min2(4, Len(decisions))
           /\ \A i \in DOMAIN batches[1] :
                /\ batches[1][i].source = decisions[i].source
                /\ batches[1][i].query = decisions[i].query
                /\ batches[1][i].filters = <<>>
                /\ batches[1][i].methods =
                      (IF InSeq("structured", Caps(decisions[i].source).supported_methods)
                       THEN <<"vector", "structured">> ELSE <<"vector">>)

\* more than 4 prior decisions, some filtered, were retried as a batch of 4
C18_Witness ==
    /\ pc = "policy_done"
    /\ refine_log[1].reason = "no_results"
    /\ Len(decisions) > 4
    /\ \E i \in DOMAIN decisions : decisions[i].filters # <<>>
    /\ Len(batches[1]) = 4

\* the answer of the last search call was a failure of one of the three kinds
CallThrew == returned.called /\ returned.answer.raises

SuccessFalse ==
    returned.called /\ ~ returned.answer.raises
        /\ "success" \in DOMAIN returned.answer.result
        /\ returned.answer.result["success"] = FALSE

UnparseableOutput ==
    returned.called /\ ~ returned.answer.raises
        /\ "output" \in DOMAIN returned.answer.result
        /\ returned.answer.result["output"] = "not json"

\* C19: search never raises to its caller, and when the call function
\* throws, the payload has success=false (whatever else it holds), or the
\* output string is not JSON, it returns an empty DispatcherResult with the
\* requested mode and source.
C19_FailuresAreEmpty ==
    returned # <<>>
        => /\ ~ returned.response.raised
           /\ (CallThrew \/ SuccessFalse \/ UnparseableOutput)
                => returned.response = EmptyResponse(returned.source, returned.mode)

RoutingKeys == {"search_history", "search_bookmarks"}

\* C20: register_mcp accepts per-source request_routing_args, the outgoing
\* arguments for a source hold exactly the routing keys registered for it
\* (none when it declared none), methods and filters only when non-empty,
\* and group_by only in aggregate mode.
C20_RequestShaping ==
    /\ pc # "register_raised"
    /\ (returned # <<>> /\ returned.called)
         => /\ DOMAIN sent_args \cap RoutingKeys = {}
            /\ "methods" \in DOMAIN sent_args => sent_args["methods"] # <<>>
            /\ "filters" \in DOMAIN sent_args => sent_args["filters"] # <<>>
            /\ "group_by" \in DOMAIN sent_args => sent_args["mode"] = "aggregate"

\* C21: the deterministic intent is used iff the source confidence is at
\* least 0.55 or the weighted confidence 0.45*source + 0.25*query_type +
\* 0.15*temporal + 0.15*entities is at least 0.55, otherwise the language
\* model's intent is used and the trace says "llm"; a fast-path plan is
\* adopted with complexity multi_hop and without the language model.
C21_IntentGate ==
    pc = "route"
        => /\ intent_path \in {"deterministic", "llm"}
           /\ intent_path = "deterministic"
                <=> (SourceConfidence(query) >= 550 \/ WeightedConfidence(query) >= 55000)
           /\ FastPathPlan(query) # <<>>
                => /\ intent_path = "deterministic"
                   /\ intent.retrieval_plan = FastPathPlan(query)
                   /\ intent.complexity = "multi_hop"
                   /\ SourceConfidence(query) >= 700

\* C22: the list score_sources_from_text returns for threshold t and
\* top_n k has every confidence in [0,1], is sorted by confidence
\* descending, has at most k entries, and holds no confidence below t.
C22_ScoresSortedBounded ==
    pc = "score_done"
        => /\ \A i \in DOMAIN returned :
                /\ returned[i].confidence >= 0
                /\ returned[i].confidence <= 1000
                /\ returned[i].confidence >= sent_args.threshold
           /\ \A i, j \in DOMAIN returned :
                i < j => returned[i].confidence >= returned[j].confidence
           /\ Len(returned) <= sent_args.top_n

WhitespaceOnly == {"", "  ", " \n "}

\* C23: when user_message and conversation_context are both empty or
\* whitespace-only, search returns empty results with exactly one error
\* and goes through no intent analysis, language-model call or backend call.
C23_EmptyContextReturns ==
    (sent_args.user_message \in WhitespaceOnly
        /\ sent_args.conversation_context \in WhitespaceOnly)
        => /\ pc \in {"context_call", "done"}
           /\ intent_path = ""
           /\ intent = NoIntent
           /\ batches = <<>>
           /\ pc = "done" => (ranked = <<>> /\ Len(errors) = 1)

\* both arguments were non-empty whitespace and search has returned
C23_Witness ==
    /\ pc = "done"
    /\ sent_args.user_message = "  "
    /\ sent_args.conversation_context = " \n "
    /\ errors = <<"No context provided for search.">>

\* C24: two runs of search with the same inputs, registry and backend
\* answers return the same results and the same meta (timing aside), the
\* order of sources_queried and methods_used included, whatever the order
\* in which the parallel backend calls complete.
C24_RepeatableResponse ==
    Len(returned) = 2 => returned[1] = returned[2]

\* the last register call made for a name
LastRegistered(name) ==
    sent_args[CHOOSE i \in DOMAIN sent_args :
                /\ sent_args[i].source_name = name
                /\ \A j \in DOMAIN sent_args : sent_args[j].source_name = name => j <= i]

\* C25: after any sequence of register calls the registry has exactly one
\* entry per distinct source_name, get(name) is the capability of the last
\* register call for that name, and registering a capability a second time
\* leaves the registry as registering it once did.
C25_LastWriteWins ==
    pc = "registry_idle"
        => /\ \A i, j \in DOMAIN _capabilities :
                _capabilities[i].source_name = _capabilities[j].source_name => i = j
           /\ {_capabilities[i].source_name : i \in DOMAIN _capabilities}
                = {sent_args[i].source_name : i \in DOMAIN sent_args}
           /\ \A i \in DOMAIN sent_args :
                get(_capabilities, sent_args[i].source_name)
                    = LastRegistered(sent_args[i].source_name)
           /\ \A c \in CapabilityPool :
                register(register(_capabilities, c), c) = register(_capabilities, c)

\* one name was registered in two revisions with another name in between
C25_Witness ==
    /\ pc = "registry_idle"
    /\ Len(sent_args) = 3
    /\ sent_args[1].source_name = sent_args[3].source_name
    /\ sent_args[1] # sent_args[3]
    /\ sent_args[2].source_name # sent_args[1].source_name
    /\ Len(_capabilities) = 2

\* the methods a request asks of a source: structured when a filter or a
\* temporal token is present, fulltext and vector when there is query text
RequestedMethods ==
    LET filtered == (_extract_filters(intent) \o extra_filters) # <<>> \/ intent.temporal # ""
        has_text == query.text # ""
    IN (IF filtered THEN <<"structured">> ELSE <<>>)
       \o (IF has_text THEN <<"fulltext", "vector">> ELSE <<>>)

\* C26: for every chosen source with at least one supported method the
\* method list is the ordered subset of [structured (filters or temporal
\* present), fulltext (query text present), vector (query text present)]
\* that the capability supports, and when that subset is empty the method
\* list is exactly the first of the capability's supported_methods.
C26_MethodSelection ==
    pc = "router_done" =>
        \A i \in DOMAIN decisions :
            LET supported == Caps(decisions[i].source).supported_methods
                subset == SelectSeq(RequestedMethods, LAMBDA m : InSeq(m, supported))
            IN supported # <<>> =>
                   decisions[i].methods = IF subset # <<>> THEN subset ELSE <<supported[1]>>

\* the group-by fields the candidate sources declare, in candidate order
DeclaredGroupBy ==
    LET declaring == SelectSeq(sent_args,
                       LAMBDA s : s \in registry /\ Caps(s).supported_group_by_fields # <<>>)
    IN [i \in DOMAIN declaring |-> Caps(declaring[i]).supported_group_by_fields[1]]

\* C27: for an aggregate intent the requested aggregate_group_by is used
\* only if a candidate source declares it, otherwise the first group-by
\* field a candidate declares is used, and if no candidate source supports
\* aggregation every decision has mode search and no group_by.
C27_ModeAndGroupBy ==
    (pc = "router_done" /\ intent.search_mode = "aggregate") =>
        LET requested == intent.aggregate_group_by
            declared == requested # ""
                        /\ \E i \in DOMAIN sent_args : supports_group_by(sent_args[i], requested)
            aggregating == \E i \in DOMAIN sent_args : supports_mode(sent_args[i], "aggregate")
        IN /\ (returned[2] = requested /\ requested # "") => declared
           /\ (~declared /\ returned[1] = "aggregate") => returned[2] = DeclaredGroupBy[1]
           /\ ~aggregating =>
                  \A i \in DOMAIN decisions :
                      decisions[i].mode = "search" /\ decisions[i].group_by = ""

\* a step of the plan hands its backend calls to gather
StepStarted == Len(gather_plan') = Len(gather_plan) + 1 /\ gather_plan'[Len(gather_plan')] # <<>>

\* C28: multi-hop steps execute strictly in plan order: the backend calls of
\* a step start only when every backend call of the steps before it has
\* completed and no gather and no entity extraction is still awaited, while
\* the calls inside one step are under way together.
C28_StepsSequential ==
    [][StepStarted =>
          /\ pc \notin {"gather", "extract"}
          /\ Len(gather_plan') = plan_step
          /\ \A k \in DOMAIN gather_plan : Completed(k) = DOMAIN gather_plan[k]
          /\ \A i \in DOMAIN gather_plan'[plan_step] : i \notin Completed(plan_step)]_vars

\* the second step runs on the entity extracted after the first, with two
\* calls under way of which the later one has completed first
C28_Witness ==
    /\ pc = "gather"
    /\ plan_step = 2
    /\ extra_filters # <<>>
    /\ Len(gather_plan[2]) = 2
    /\ Completed(2) = {2}

\* C30: a step with entity_from_previous false never receives the filters
\* extracted from an earlier step: its decisions are those the router builds
\* from the intent alone, also when the step before it was skipped.
C30_EntityFiltersOnlyNextStep ==
    \A k \in DOMAIN gather_plan :
        ~ intent.retrieval_plan[k].entity_from_previous =>
            gather_plan[k] \in {<<>>, decisions_for_sources(intent.retrieval_plan[k].sources,
                                                           query, intent, <<>>)}

\* C29: every routing decision dispatched during a search (initial routing,
\* broad-fallback capping, multi-hop steps and every refinement reason) for
\* a registered source with at least one supported method has a non-empty
\* methods list that is a subset of the source's supported_methods.
C29_MethodsSupported ==
    \A b \in DOMAIN batches :
        \A i \in DOMAIN batches[b] :
            LET d == batches[b][i]
            IN (d.source \in registry /\ Caps(d.source).supported_methods # <<>>) =>
                   /\ d.methods # <<>>
                   /\ \A j \in DOMAIN d.methods :
                          InSeq(d.methods[j], Caps(d.source).supported_methods)

====
